---- MODULE Spec2Model ----
(***************************************************************************)
(* Item core of lib/item.py: typed value casting, the update protocol      *)
(* (Item.__update), on_update/on_change rules, threshold hysteresis,       *)
(* timers and autotimers, Item.set and the fade job (_fadejob).            *)
(***************************************************************************)
EXTENDS Integers, Sequences, FiniteSets, TLC

VARIABLES
    cfg,      \* item attributes parsed by Item.__init__, fixed afterwards
    items,    \* the mutable fields of every Item
    sched,    \* jobs pending in the scheduler (scheduler.add with next=)
    queue,    \* work handed to sh.trigger and not run yet
    cache,    \* the cache file of every item: its value and mtime, or absent
    now,      \* shtime.now()
    fade,     \* the running _fadejob calls: their position and arguments
    upd,      \* the Item.__update calls of concurrent threads: position and locals
    reg,      \* Items.__items and Items.__item_dict while the item tree is built
    fn,       \* the function under check: its arguments and what it gave
    seen,     \* whether an item ever held a value at or beyond its thresholds
    last      \* the operation performed by the last step and what it did

vars == <<cfg, items, sched, queue, cache, now, fade, upd, reg, fn, seen, last>>

(***************************************************************************)
(* Bounds of the model                                                     *)
(***************************************************************************)
MaxTime == 1
MaxQueue == 1
MaxDepth == 4

(***************************************************************************)
(* Python values.  n carries the number of an int, float or bool, s the    *)
(* text of a str.                                                          *)
(***************************************************************************)
NoneV == [t |-> "none", n |-> 0, s |-> ""]
I(k) == [t |-> "int", n |-> k, s |-> ""]
F(k) == [t |-> "float", n |-> k, s |-> ""]
B(b) == [t |-> "bool", n |-> IF b THEN 1 ELSE 0, s |-> ""]
S(str) == [t |-> "str", n |-> 0, s |-> str]

IsNumber(x) == x.t \in {"int", "float", "bool"}

\* Python ==: numbers compare by value across int, float and bool
PyEq(x, y) ==
    IF IsNumber(x) /\ IsNumber(y) THEN x.n = y.n
    ELSE x.t = y.t /\ x.s = y.s

Ok(v) == [ok |-> TRUE, v |-> v]
Fail == [ok |-> FALSE, v |-> NoneV]

\* str.strip() and str.lower() on the strings the model feeds in
Strip(str) ==
    CASE str = " 2 " -> "2"
      [] str = " " -> ""
      [] OTHER -> str

Lower(str) ==
    CASE str = "On" -> "on"
      [] str = "OFF" -> "off"
      [] str = "True" -> "true"
      [] OTHER -> str

\* int(str): the text is stripped by int() itself and must be an integer literal
IntOfStr(str) ==
    LET x == Strip(str) IN
    CASE x = "0" -> Ok(I(0))
      [] x = "1" -> Ok(I(1))
      [] x = "2" -> Ok(I(2))
      [] x = "3" -> Ok(I(3))
      [] OTHER -> Fail

\* float(str): integer literals and the float literals fed in
FloatOfStr(str) ==
    LET x == Strip(str) IN
    CASE x = "2.0" -> Ok(F(2))
      [] x = "1.0" -> Ok(F(1))
      [] IntOfStr(x).ok -> Ok(F(IntOfStr(x).v.n))
      [] OTHER -> Fail

\* int(value)
PyInt(x) ==
    CASE IsNumber(x) -> Ok(I(x.n))
      [] x.t = "str" -> IntOfStr(x.s)
      [] OTHER -> Fail

\* float(value)
PyFloat(x) ==
    CASE IsNumber(x) -> Ok(F(x.n))
      [] x.t = "str" -> FloatOfStr(x.s)
      [] OTHER -> Fail

_cast_str(x) == IF x.t = "str" THEN Ok(x) ELSE Fail

_cast_foo(x) == Ok(x)

\* a bool cast in the manner of Utils.to_bool: every number but 0 is true
CastBoolLenient(x) ==
    CASE IsNumber(x) -> Ok(B(x.n # 0))
      [] x.t = "str" ->
            IF Lower(x.s) \in {"0", "false", "no", "off", ""} THEN Ok(B(FALSE))
            ELSE IF Lower(x.s) \in {"1", "true", "yes", "on"} THEN Ok(B(TRUE))
            ELSE Fail
      [] OTHER -> Fail

_cast_bool(x) ==
    CASE IsNumber(x) ->
            IF x.n = 0 THEN Ok(B(FALSE))
            ELSE IF x.n = 1 THEN Ok(B(TRUE))
            ELSE Fail
      [] x.t = "str" ->
            IF Lower(x.s) \in {"0", "false", "no", "off", ""} THEN Ok(B(FALSE))
            ELSE IF Lower(x.s) \in {"1", "true", "yes", "on"} THEN Ok(B(TRUE))
            ELSE Fail
      [] OTHER -> Fail

_cast_scene(x) == PyInt(x)

_cast_num(x) ==
    LET y == IF x.t = "str" THEN S(Strip(x.s)) ELSE x IN
    IF y.t = "str" /\ y.s = "" THEN Ok(I(0))
    ELSE IF y.t = "float" THEN Ok(y)
    ELSE IF PyInt(y).ok THEN PyInt(y)
    ELSE IF PyFloat(y).ok THEN PyFloat(y)
    ELSE Fail

\* self.cast = globals()['_cast_' + self._type]
Cast(type, x) ==
    CASE type = "num" -> _cast_num(x)
      [] type = "bool" -> _cast_bool(x)
      [] type = "scene" -> _cast_scene(x)
      [] type = "str" -> _cast_str(x)
      [] OTHER -> _cast_foo(x)

\* lib.constants.ITEM_DEFAULTS
ITEM_DEFAULTS(type) ==
    CASE type = "num" -> I(0)
      [] type = "bool" -> B(FALSE)
      [] type = "scene" -> I(0)
      [] type = "str" -> S("")
      [] OTHER -> NoneV

(***************************************************************************)
(* Item attributes (Item.__init__, the loop over config.items())           *)
(***************************************************************************)
Paths == <<"a", "b">>          \* Items.__items, in registration order
PathSet == {Paths[i] : i \in 1..Len(Paths)}

ATTRIB_COMPAT_V12 == "1.2"
ATTRIB_COMPAT_LATEST == "latest"

\* rule and eval expressions handed to eval(): what they compute
ExprValue == [k |-> "value", v |-> NoneV, p |-> ""]       \* value
ExprConst(v) == [k |-> "const", v |-> v, p |-> ""]        \* a literal
ExprItem(p) == [k |-> "item", v |-> NoneV, p |-> p]       \* sh.<p>()
ExprNone == [k |-> "none", v |-> NoneV, p |-> ""]         \* computes None
ExprRaise == [k |-> "raise", v |-> NoneV, p |-> ""]       \* raises
NoExpr == [k |-> "", v |-> NoneV, p |-> ""]               \* self._eval = None

Rule(dest, expr) == [dest |-> dest, expr |-> expr]

NoAutotimer ==
    [on |-> FALSE, time |-> S(""), value |-> S(""), compat |-> ATTRIB_COMPAT_V12,
     timeitem |-> "", valueitem |-> ""]
Autotimer(time, value, compat) ==
    [on |-> TRUE, time |-> time, value |-> value, compat |-> compat,
     timeitem |-> "", valueitem |-> ""]

NoThreshold == [on |-> FALSE, low |-> 0, high |-> 0]
Threshold(low, high) == [on |-> TRUE, low |-> low, high |-> high]

\* an item without attributes: the defaults Item.__init__ sets first
DefaultConf ==
    [type |-> "num", value |-> NoneV, enforce_updates |-> FALSE, cache |-> FALSE,
     eval |-> NoExpr, trigger |-> <<>>, on_update |-> <<>>, on_change |-> <<>>,
     autotimer |-> NoAutotimer, threshold |-> NoThreshold,
     methods |-> <<>>, logics |-> <<>>,
     readonly |-> FALSE,       \* the cache file of the item cannot be written
     condition |-> NoExpr]     \* self._trigger_condition

(***************************************************************************)
(* Helpers of Item.__init__                                                *)
(***************************************************************************)
\* "{0}:{1}".format(caller, source); a source of None prints as "None"
By(caller, source) == <<caller, source>>

\* Item._cast_duration: seconds, "<n>s", or False (0 seconds) when unparsable
_cast_duration(time) ==
    CASE time.t = "str" ->
            LET x == Strip(time.s) IN
            IF x = "1s" THEN 1
            ELSE IF x = "2s" THEN 2
            ELSE IF IntOfStr(x).ok THEN IntOfStr(x).v.n
            ELSE 0
      [] time.t = "int" -> time.n
      [] OTHER -> 0

\* Item._castvalue_to_itemtype
_castvalue_to_itemtype(type, value, compat) ==
    IF compat = ATTRIB_COMPAT_LATEST
    THEN IF Cast(type, value).ok THEN Cast(type, value).v
         ELSE IF Cast(type, S("")).ok THEN Cast(type, S("")).v ELSE value
    ELSE value

\* the timer name both Item.timer and the autotimer re-arm submit under
TimerName(path) == <<"items.", path, "-Timer">>

NoFile == [exists |-> FALSE, value |-> NoneV, mtime |-> 0]
File(v, t) == [exists |-> TRUE, value |-> v, mtime |-> t]

\* Item.__init__ from the cache block on: [ok, item, file]
NewItem(conf, file, t) ==
    LET cached == conf.cache /\ file.exists
        raw == IF cached THEN file.value ELSE conf.value
        known == conf.type \in {"num", "bool", "scene", "str", "foo"}
        val == IF raw.t = "none" THEN ITEM_DEFAULTS(conf.type) ELSE raw
        c == Cast(conf.type, val)
        ts == IF cached THEN file.mtime ELSE t
        by == IF cached THEN By("Cache", "None") ELSE By("Init", "None")
        at == conf.autotimer
    IN  [ok |-> known /\ c.ok,
         item |-> [value |-> c.v, prev_value |-> c.v,
                   last_change |-> ts, prev_change |-> ts,
                   last_update |-> ts, prev_update |-> ts,
                   changed_by |-> by, updated_by |-> by,
                   fading |-> FALSE, th_crossed |-> FALSE,
                   autotimer |-> [on |-> at.on,
                                  time |-> _cast_duration(at.time),
                                  value |-> _castvalue_to_itemtype(conf.type, at.value, at.compat),
                                  compat |-> at.compat,
                                  timeitem |-> at.timeitem,
                                  valueitem |-> at.valueitem]],
         file |-> IF conf.cache /\ ~file.exists /\ known /\ c.ok THEN File(c.v, t) ELSE file]

(***************************************************************************)
(* The world an operation runs in and returns: the variables it may touch, *)
(* the trace of what it did, and the exception it is raising, if any.      *)
(***************************************************************************)
World ==
    [cfg |-> cfg, items |-> items, sched |-> sched, queue |-> queue, cache |-> cache,
     now |-> now, trace |-> <<>>, raised |-> "", calls |-> 0]

Ev(e, n, u, i) == [e |-> e, n |-> n, u |-> u, i |-> i]
Emit(w, ev) == [w EXCEPT !.trace = Append(@, ev)]
Raise(w, exc) == [w EXCEPT !.raised = exc]

\* Items.return_item
return_item(w, path) == path \in DOMAIN w.items

\* Items.match_items for a pattern without attribute filter: the paths, in
\* registration order, that the pattern's regular expression matches
match_items(pattern) ==
    SelectSeq(Paths, LAMBDA p : pattern = "*" \/ pattern = p)

\* Item._init_prerun of item d: the sources its trigger patterns match
RECURSIVE TriggerSources(_, _)
TriggerSources(trigger, i) ==
    IF i > Len(trigger) THEN <<>>
    ELSE match_items(trigger[i]) \o TriggerSources(trigger, i + 1)

\* item._items_to_trigger of item n after every item ran _init_prerun, in
\* the order of Items.return_items
RECURSIVE ItemsToTrigger(_, _, _)
ItemsToTrigger(c, n, i) ==
    IF i > Len(Paths) THEN <<>>
    ELSE LET d == Paths[i]
             hits == SelectSeq(TriggerSources(c[d].trigger, 1), LAMBDA x : x = n /\ x # d)
         IN  [j \in 1..Len(hits) |-> d] \o ItemsToTrigger(c, n, i + 1)

\* eval(expr) with value bound and sh at hand
EvalExpr(w, expr, value) ==
    CASE expr.k = "value" -> Ok(value)
      [] expr.k = "const" -> Ok(expr.v)
      [] expr.k = "item" -> IF return_item(w, expr.p) THEN Ok(w.items[expr.p].value) ELSE Fail
      [] expr.k = "none" -> Ok(NoneV)
      [] OTHER -> Fail

\* scheduler.add(name, obj, value, next): one entry per name
SchedulerAdd(s, name, job) ==
    {j \in s : j.name # name} \cup {job}

\* a job named after its caller as well
TimerJobNamedByCaller(path, value, caller, next) ==
    [name |-> <<"items.", path, caller>>, item |-> path, value |-> value,
     caller |-> caller, next |-> next]

TimerJob(path, value, caller, next) ==
    [name |-> TimerName(path), item |-> path, value |-> value, caller |-> caller,
     next |-> next]

\* sh.trigger(name, obj=item.__run_eval, value=args, by=caller, ...)
EvalJob(path, value, caller, source) ==
    [item |-> path, value |-> value, caller |-> caller, source |-> source]

\* a cache write that stores the value the item had before
CacheWritePrevious(w, n, v) ==
    [w EXCEPT !.cache[n] = File(w.items[n].prev_value, w.now)]

\* _cache_write(filename, value): an IOError is logged and nothing is written
_cache_write(w, n, v) ==
    IF w.cfg[n].readonly THEN w
    ELSE [w EXCEPT !.cache[n] = File(v, w.now)]

(***************************************************************************)
(* Item.__update, step by step                                             *)
(***************************************************************************)
\* a Commit that records updated_by only when the value changes
CommitStampsOnChange(w, n, value, caller, source) ==
    LET it == w.items[n] IN
    IF ~PyEq(value, it.value)
    THEN [w EXCEPT !.items[n] =
            [it EXCEPT !.updated_by = By(caller, source),
                       !.prev_value = it.value,
                       !.value = value,
                       !.prev_change = it.last_change,
                       !.last_change = w.now,
                       !.changed_by = By(caller, source),
                       !.fading = IF caller # "fader" THEN FALSE ELSE @]]
    ELSE w

\* lines 1007-1029: the part under self._lock
Commit(w, n, value, caller, source) ==
    LET it == w.items[n]
        it1 == [it EXCEPT !.updated_by = By(caller, source)]
        it2 == IF ~PyEq(value, it.value)
               THEN [it1 EXCEPT !.prev_value = it.value,
                                !.value = value,
                                !.prev_change = it.last_change,
                                !.last_change = w.now,
                                !.changed_by = By(caller, source),
                                !.fading = IF caller # "fader" THEN FALSE ELSE @]
               ELSE it1
    IN  [w EXCEPT !.items[n] = it2]

\* lines 1033-1034
StampUpdate(w, n) ==
    [w EXCEPT !.items[n].prev_update = w.items[n].last_update,
              !.items[n].last_update = w.now]

\* lines 1037-1041: every method is called; what it raises is caught
RECURSIVE RunMethods(_, _, _, _)
RunMethods(w, n, u, i) ==
    IF i > Len(w.cfg[n].methods) THEN w
    ELSE RunMethods(Emit(w, Ev("method", n, u, i)), n, u, i + 1)

\* Item.__trigger_logics: a logic that raises ends the loop and the update
RECURSIVE __trigger_logics(_, _, _, _)
__trigger_logics(w, n, u, i) ==
    IF i > Len(w.cfg[n].logics) THEN w
    ELSE IF w.cfg[n].logics[i] = "raise"
         THEN Raise(Emit(w, Ev("logic", n, u, i)), "CallbackError")
         ELSE __trigger_logics(Emit(w, Ev("logic", n, u, i)), n, u, i + 1)

\* threshold logics without the crossed flag
ThresholdLogicsNoHysteresis(w, n, u) ==
    LET it == w.items[n]
        th == w.cfg[n].threshold
    IN  IF th.on /\ Len(w.cfg[n].logics) > 0
        THEN IF ~IsNumber(it.value) THEN Raise(w, "TypeError")
             ELSE IF it.value.n <= th.low
                  THEN __trigger_logics([w EXCEPT !.items[n].th_crossed = FALSE], n, u, 1)
             ELSE IF it.value.n >= th.high
                  THEN __trigger_logics([w EXCEPT !.items[n].th_crossed = TRUE], n, u, 1)
             ELSE w
        ELSE IF Len(w.cfg[n].logics) > 0 THEN __trigger_logics(w, n, u, 1)
        ELSE w

\* lines 1042-1050
ThresholdLogics(w, n, u) ==
    LET it == w.items[n]
        th == w.cfg[n].threshold
    IN  IF th.on /\ Len(w.cfg[n].logics) > 0
        THEN IF ~IsNumber(it.value) THEN Raise(w, "TypeError")
             ELSE IF it.th_crossed /\ it.value.n <= th.low
                  THEN __trigger_logics([w EXCEPT !.items[n].th_crossed = FALSE], n, u, 1)
             ELSE IF ~it.th_crossed /\ it.value.n >= th.high
                  THEN __trigger_logics([w EXCEPT !.items[n].th_crossed = TRUE], n, u, 1)
             ELSE w
        ELSE IF Len(w.cfg[n].logics) > 0 THEN __trigger_logics(w, n, u, 1)
        ELSE w

\* dependents re-evaluated in the caller's stack instead of being enqueued
RECURSIVE TriggerItemsInline(_, _, _, _, _, _)
TriggerItemsInline(w, n, value, u, deps, i) ==
    IF i > Len(deps) THEN w
    ELSE TriggerItemsInline(
            Emit([w EXCEPT !.items[deps[i]].value = value,
                           !.items[deps[i]].updated_by = <<"Eval", n>>],
                 Ev("trigger", deps[i], u, i)),
            n, value, u, deps, i + 1)

\* lines 1051-1053
RECURSIVE TriggerItems(_, _, _, _, _, _)
TriggerItems(w, n, value, u, deps, i) ==
    IF i > Len(deps) THEN w
    ELSE TriggerItems(
            Emit([w EXCEPT !.queue = Append(@, EvalJob(deps[i], value, "Eval", n))],
                 Ev("trigger", deps[i], u, i)),
            n, value, u, deps, i + 1)

\* a cache write-through that ignores item._fading
CacheStepWhileFading(w, n, u, changed) ==
    IF changed /\ w.cfg[n].cache
    THEN Emit(_cache_write(w, n, w.items[n].value), Ev("cache", n, u, 0))
    ELSE w

\* lines 1054-1058
CacheStep(w, n, u, changed) ==
    IF changed /\ w.cfg[n].cache /\ ~w.items[n].fading
    THEN Emit(_cache_write(w, n, w.items[n].value), Ev("cache", n, u, 0))
    ELSE w

\* an autotimer that is re-armed by its own fire as well
AutotimerStepAnyCaller(w, n, u, caller) ==
    LET at == w.items[n].autotimer IN
    IF at.on /\ ~w.items[n].fading
    THEN Emit([w EXCEPT !.sched = SchedulerAdd(@, TimerName(n),
                                    TimerJob(n, at.value, "Autotimer", w.now + at.time))],
              Ev("timer", n, u, w.now + at.time))
    ELSE w

\* lines 1059-1076
AutotimerStep(w, n, u, caller) ==
    LET at == w.items[n].autotimer IN
    IF at.on /\ caller # "Autotimer" /\ ~w.items[n].fading
    THEN LET time == IF at.timeitem # "" /\ return_item(w, at.timeitem)
                     THEN w.items[at.timeitem].value.n ELSE at.time
             value == IF at.valueitem # "" /\ return_item(w, at.valueitem)
                      THEN _castvalue_to_itemtype(w.cfg[n].type,
                                                  w.items[at.valueitem].value, at.compat)
                      ELSE at.value
             job == TimerJob(n, value, "Autotimer", w.now + time)
         IN  Emit([w EXCEPT !.items[n].autotimer.time = time,
                            !.items[n].autotimer.value = value,
                            !.sched = SchedulerAdd(@, job.name, job)],
                  Ev("timer", n, u, job.next))
    ELSE w

\* a gate that forgets scenes
GateWithoutScene(w, n, changed) ==
    changed \/ w.cfg[n].enforce_updates

\* the gate of line 1032
Gate(w, n, changed) ==
    changed \/ w.cfg[n].enforce_updates \/ w.cfg[n].type = "scene"

RECURSIVE __update(_, _, _, _, _, _)
RECURSIVE RunRules(_, _, _, _, _, _, _, _)

\* Item._run_on_xxx once the expression is evaluated to r (lines 954-969)
RuleEffect(w, n, rule, r, attr, u, i, depth) ==
    IF ~r.ok \/ r.v.t = "none" THEN w
    ELSE IF rule.dest # ""
         THEN IF return_item(w, rule.dest)
              THEN __update(w, rule.dest, r.v, attr, n, depth + 1)
              ELSE w
         ELSE Emit(w, Ev("eval", n, u, i))

\* Item._run_on_xxx for rule i of the list, then the rest of the list
\* (the loops of __run_on_update and __run_on_change)
RunRules(w, n, value, rules, attr, u, i, depth) ==
    IF i > Len(rules) \/ w.raised # "" THEN w
    ELSE RunRules(RuleEffect(Emit(Emit(w, Ev(attr, n, u, i)), Ev("eval", n, u, i)),
                             n, rules[i], EvalExpr(w, rules[i].expr, value),
                             attr, u, i, depth),
                  n, value, rules, attr, u, i + 1, depth)

\* line 1031
OnUpdateStep(w, n, value, u, depth) ==
    RunRules(w, n, value, w.cfg[n].on_update, "on_update", u, 1, depth)

\* lines 1033-1036
OnChangeStep(w, n, value, u, depth) ==
    RunRules(StampUpdate(w, n), n, value, w.cfg[n].on_change, "on_change", u, 1, depth)

\* lines 1037-1050
MethodsLogicsStep(w, n, u) ==
    IF w.raised # "" THEN w ELSE ThresholdLogics(RunMethods(w, n, u, 1), n, u)

\* lines 1051-1053
TriggerStep(w, n, value, u) ==
    IF w.raised # "" THEN w
    ELSE TriggerItems(w, n, value, u, ItemsToTrigger(w.cfg, n, 1), 1)

\* lines 1032-1053: the block behind the gate
GateBlock(w, n, value, u, gate, depth) ==
    IF w.raised # "" \/ ~gate THEN w
    ELSE TriggerStep(MethodsLogicsStep(OnChangeStep(w, n, value, u, depth), n, u),
                     n, value, u)

\* a cache step whose failed write leaves __update
CacheGuardRaises(w, n, u, changed) ==
    IF w.raised # "" THEN w
    ELSE IF changed /\ w.cfg[n].cache /\ ~w.items[n].fading /\ w.cfg[n].readonly
         THEN Raise(CacheStep(w, n, u, changed), "IOError")
         ELSE CacheStep(w, n, u, changed)

CacheGuard(w, n, u, changed) ==
    IF w.raised # "" THEN w ELSE CacheStep(w, n, u, changed)

\* an autotimer that is re-armed only when the value changed
AutotimerGuardOnChange(w, n, u, caller) ==
    IF w.raised # "" \/ Ev("commit", n, u, 0) \in {w.trace[i] : i \in DOMAIN w.trace}
    THEN w ELSE AutotimerStep(w, n, u, caller)

AutotimerGuard(w, n, u, caller) ==
    IF w.raised # "" THEN w ELSE AutotimerStep(w, n, u, caller)

\* the cache write-through ahead of the block behind the gate
AfterCommitCacheFirst(w, n, value, caller, u, changed, depth) ==
    AutotimerGuard(
        GateBlock(CacheGuard(OnUpdateStep(w, n, value, u, depth), n, u, changed),
                  n, value, u, Gate(w, n, changed), depth),
        n, u, caller)

\* lines 1030-1076: what follows the release of the lock
AfterCommit(w, n, value, caller, u, changed, depth) ==
    AutotimerGuard(
        CacheGuard(
            GateBlock(OnUpdateStep(w, n, value, u, depth), n, value, u,
                      Gate(w, n, changed), depth),
            n, u, changed),
        n, u, caller)

\* lines 1007-1076 for a value that passed the cast
Accepted(w, n, value, caller, source, u, changed, depth) ==
    AfterCommit(Emit([Commit(w, n, value, caller, source) EXCEPT !.calls = u],
                     Ev("commit", n, u, IF changed THEN 1 ELSE 0)),
                n, value, caller, u, changed, depth)

\* an __update that records the caller before it casts
UpdateStampsBeforeCast(w, n, raw, caller, source, depth) ==
    IF depth > MaxDepth THEN Raise(w, "RecursionError")
    ELSE IF ~Cast(w.cfg[n].type, raw).ok
         THEN [w EXCEPT !.items[n].updated_by = By(caller, source)]
    ELSE Accepted(w, n, Cast(w.cfg[n].type, raw).v, caller, source, w.calls + 1,
                  ~PyEq(Cast(w.cfg[n].type, raw).v, w.items[n].value), depth)

\* Item.__update(value, caller, source)
__update(w, n, raw, caller, source, depth) ==
    IF depth > MaxDepth THEN Raise(w, "RecursionError")
    ELSE IF ~Cast(w.cfg[n].type, raw).ok THEN w
    ELSE Accepted(w, n, Cast(w.cfg[n].type, raw).v, caller, source, w.calls + 1,
                  ~PyEq(Cast(w.cfg[n].type, raw).v, w.items[n].value), depth)

\* lines 911-923: cond is True without a trigger condition, else what the
\* condition evaluates to; the evaluation goes on if cond == True
CondHolds(w, n, value) ==
    \/ w.cfg[n].condition.k = ""
    \/ /\ EvalExpr(w, w.cfg[n].condition, value).ok
       /\ PyEq(EvalExpr(w, w.cfg[n].condition, value).v, B(TRUE))

\* a __run_eval that does not look at the trigger condition
RunEvalUnconditional(w, n, value, caller, source) ==
    IF w.cfg[n].eval.k = "" THEN w
    ELSE LET r == EvalExpr(w, w.cfg[n].eval, value) IN
         IF ~r.ok \/ r.v.t = "none" THEN w
         ELSE __update(w, n, r.v, caller, source, 0)

\* Item.__run_eval(value, caller, source)
__run_eval(w, n, value, caller, source) ==
    IF w.cfg[n].eval.k = "" \/ ~CondHolds(w, n, value) THEN w
    ELSE LET r == EvalExpr(w, w.cfg[n].eval, value) IN
         IF ~r.ok \/ r.v.t = "none" THEN w
         ELSE __update(w, n, r.v, caller, source, 0)

\* a call that evaluates in the stack of the caller
CallInline(w, n, value, caller, source) ==
    IF value.t = "none" THEN w
    ELSE IF w.cfg[n].eval.k # ""
         THEN __run_eval(w, n, value, caller, source)
         ELSE __update(w, n, value, caller, source, 0)

\* Item.__call__(value, caller, source)
__call__(w, n, value, caller, source) ==
    IF value.t = "none" THEN w
    ELSE IF w.cfg[n].eval.k # ""
         THEN [w EXCEPT !.queue = Append(@, EvalJob(n, value, caller, source))]
         ELSE __update(w, n, value, caller, source, 0)

\* the value Item.__call__ hands to __update, if it gets there
CallCand(c, n, value) ==
    IF value.t # "none" /\ c[n].eval.k = "" THEN Ok(value) ELSE Fail

\* the value Item.__run_eval hands to __update, if it gets there
EvalCand(w, n, value) ==
    IF w.cfg[n].eval.k # "" /\ CondHolds(w, n, value) /\ EvalExpr(w, w.cfg[n].eval, value).ok
       /\ EvalExpr(w, w.cfg[n].eval, value).v.t # "none"
    THEN EvalExpr(w, w.cfg[n].eval, value) ELSE Fail

\* a set that does not return after a failed cast
SetWithoutReturn(w, n, raw, caller, prev_change, last_change) ==
    LET c == Cast(w.cfg[n].type, raw)
        it == w.items[n]
    IN  [w EXCEPT !.items[n] =
            [it EXCEPT !.value = IF c.ok THEN c.v ELSE raw,
                       !.prev_change = IF prev_change = -1 THEN it.last_change
                                       ELSE prev_change,
                       !.last_change = IF last_change = -1 THEN w.now ELSE last_change,
                       !.changed_by = By(caller, "None"),
                       !.updated_by = By(caller, "None")]]

\* a set that stamps last_update and ends a fade, as a changing update does
SetStampsUpdate(w, n, raw, caller, prev_change, last_change) ==
    LET c == Cast(w.cfg[n].type, raw)
        it == w.items[n]
    IN  IF ~c.ok THEN w
        ELSE [w EXCEPT !.items[n] =
                [it EXCEPT !.value = c.v,
                           !.prev_change = IF prev_change = -1 THEN it.last_change
                                           ELSE prev_change,
                           !.last_change = IF last_change = -1 THEN w.now ELSE last_change,
                           !.prev_update = it.last_update,
                           !.last_update = w.now,
                           !.fading = FALSE,
                           !.changed_by = By(caller, "None"),
                           !.updated_by = By(caller, "None")]]

\* Item.set(value, caller, source, dest, prev_change, last_change); a
\* timestamp of -1 stands for an argument left at None
set(w, n, raw, caller, prev_change, last_change) ==
    LET c == Cast(w.cfg[n].type, raw)
        it == w.items[n]
    IN  IF ~c.ok THEN w
        ELSE [w EXCEPT !.items[n] =
                [it EXCEPT !.value = c.v,
                           !.prev_change = IF prev_change = -1 THEN it.last_change
                                           ELSE prev_change,
                           !.last_change = IF last_change = -1 THEN w.now ELSE last_change,
                           !.changed_by = By(caller, "None"),
                           !.updated_by = By(caller, "None")]]

\* Item.timer(time, value, auto, compat)
timer(w, n, time, value, auto, compat) ==
    LET t == _cast_duration(time)
        v == _castvalue_to_itemtype(w.cfg[n].type, value, compat)
        caller == IF auto THEN "Autotimer" ELSE "Timer"
        w1 == IF auto
              THEN [w EXCEPT !.items[n].autotimer =
                        [on |-> TRUE, time |-> t, value |-> v, compat |-> compat,
                         timeitem |-> "", valueitem |-> ""]]
              ELSE w
        job == TimerJob(n, v, caller, w.now + t)
    IN  [w1 EXCEPT !.sched = SchedulerAdd(@, job.name, job)]

(***************************************************************************)
(* _fadejob(item, dest, step, delta), one line of it per step              *)
(***************************************************************************)
IdleJob ==
    [pc |-> "idle", item |-> "", dest |-> NoneV, step |-> 0, up |-> TRUE,
     v0 |-> NoneV, issued |-> <<>>, cut |-> FALSE, hit |-> FALSE, stopped |-> FALSE,
     cancelled |-> FALSE]

\* a job that never looks at item._fading when it starts
FadeEntryUnguarded(it) == "set"

\* lines 1424-1426: if item._fading: return, else go on
FadeEntry(it) == IF it.fading THEN "done" ELSE "set"

\* item._value + step, item._value - step
PyAdd(x, k) == IF x.t = "float" THEN F(x.n + k) ELSE I(x.n + k)

\* while conditions that step onto the target
FadeLoopTestInclusive(it, job) ==
    IF job.up
    THEN PyAdd(it.value, job.step).n <= job.dest.n /\ it.fading
    ELSE PyAdd(it.value, 0 - job.step).n >= job.dest.n /\ it.fading

\* the while conditions of lines 1429 and 1435
FadeLoopTest(it, job) ==
    IF job.up
    THEN PyAdd(it.value, job.step).n < job.dest.n /\ it.fading
    ELSE PyAdd(it.value, 0 - job.step).n > job.dest.n /\ it.fading

\* the value of the next step, lines 1430 and 1436
FadeNext(it, job) ==
    IF job.up THEN PyAdd(it.value, job.step) ELSE PyAdd(it.value, 0 - job.step)

(***************************************************************************)
(* Configurations and inputs                                               *)
(***************************************************************************)
Conf(a, b) == [p \in PathSet |-> IF p = "a" THEN a ELSE b]

\* rules, methods, a logic, a dependent with an eval expression, a cache
ConfRules ==
    Conf([DefaultConf EXCEPT !.cache = TRUE,
                             !.on_update = <<Rule("", ExprValue)>>,
                             !.on_change = <<Rule("b", ExprValue), Rule("zz", ExprValue)>>,
                             !.methods = <<"ok", "raise">>,
                             !.logics = <<"ok">>],
         [DefaultConf EXCEPT !.value = S(" 2 "), !.trigger = <<"a">>, !.eval = ExprValue])

\* enforce_updates
ConfEnforce ==
    Conf([DefaultConf EXCEPT !.enforce_updates = TRUE,
                             !.on_update = <<Rule("", ExprNone)>>,
                             !.on_change = <<Rule("", ExprConst(I(1)))>>,
                             !.methods = <<"ok">>,
                             !.logics = <<"ok">>],
         DefaultConf)

\* a scene
ConfScene ==
    Conf([DefaultConf EXCEPT !.type = "scene",
                             !.on_update = <<Rule("", ExprRaise)>>,
                             !.on_change = <<Rule("b", ExprValue)>>,
                             !.logics = <<"ok">>],
         [DefaultConf EXCEPT !.type = "bool", !.methods = <<"ok">>])

\* threshold = 1:3 on an item that starts between the bounds
ConfThresholdMid ==
    Conf([DefaultConf EXCEPT !.threshold = Threshold(1, 3), !.logics = <<"ok">>,
                             !.value = I(2)],
         DefaultConf)

\* threshold = 1:3 with a subscribed logic
ConfThreshold ==
    Conf([DefaultConf EXCEPT !.threshold = Threshold(1, 3), !.logics = <<"ok">>,
                             !.on_change = <<Rule("", ExprValue)>>],
         DefaultConf)

\* autotimer = 1 = 0
ConfAutotimer ==
    Conf([DefaultConf EXCEPT !.autotimer = Autotimer(S("1"), S("0"), ATTRIB_COMPAT_V12),
                             !.on_update = <<Rule("b", ExprValue)>>],
         DefaultConf)

\* autotimer = 1s = 0 = latest, and rules that lead back to the item
ConfAutotimerLoop ==
    Conf([DefaultConf EXCEPT !.autotimer = Autotimer(S("1s"), S("0"), ATTRIB_COMPAT_LATEST),
                             !.on_change = <<Rule("b", ExprValue)>>],
         [DefaultConf EXCEPT !.on_change = <<Rule("a", ExprConst(I(1)))>>])

Configs ==
    {ConfRules, ConfEnforce, ConfScene, ConfThreshold, ConfAutotimer, ConfAutotimerLoop}

\* number items: a plain one, one that starts at 3 with a method subscribed, and
\* one with cache = yes and autotimer = 1 = 0 whose changes go to a bool item
ConfPlain == Conf(DefaultConf, DefaultConf)

\* a bool item with a cache file
ConfBool == Conf([DefaultConf EXCEPT !.type = "bool", !.cache = TRUE], DefaultConf)

\* what a bool item is fed
BoolCandidates ==
    {I(0), I(1), I(2), I(-1), F(0), F(1), F(2), B(FALSE), B(TRUE),
     S("0"), S("1"), S("2"), S("On"), S("OFF"), S("True"), S("false"), S("no"),
     S("yes"), S(""), S(" 1 "), S("x")}
ConfHigh == Conf([DefaultConf EXCEPT !.value = I(3), !.methods = <<"ok">>], DefaultConf)
ConfAll ==
    Conf([DefaultConf EXCEPT !.cache = TRUE,
                             !.autotimer = Autotimer(S("1"), S("0"), ATTRIB_COMPAT_V12),
                             !.on_change = <<Rule("b", ExprValue)>>],
         [DefaultConf EXCEPT !.type = "bool"])

FadeConfigs == {ConfPlain, ConfHigh}

\* a number item that starts at 1, for two fade requests at a time
ConfTwo == Conf([DefaultConf EXCEPT !.value = I(1)], DefaultConf)

\* an item with everything an update can set off: two on_update rules, two
\* on_change rules, two methods, two logics, a dependent, a cache file and
\* autotimer = 1 = 0
ConfOrder ==
    Conf([DefaultConf EXCEPT !.cache = TRUE,
                             !.autotimer = Autotimer(S("1"), S("0"), ATTRIB_COMPAT_V12),
                             !.on_update = <<Rule("", ExprValue), Rule("b", ExprValue)>>,
                             !.on_change = <<Rule("b", ExprValue), Rule("", ExprValue)>>,
                             !.methods = <<"ok", "ok">>,
                             !.logics = <<"ok", "ok">>],
         [DefaultConf EXCEPT !.trigger = <<"a">>, !.eval = ExprValue])

\* an item whose first on_update rule fails to evaluate, whose first
\* on_change rule names an item that is not registered and whose first method
\* raises, each with a sound one behind it; a logic, a dependent, a cache
\* file and autotimer = 1 = 0
ConfIsolate ==
    Conf([DefaultConf EXCEPT !.cache = TRUE,
                             !.autotimer = Autotimer(S("1"), S("0"), ATTRIB_COMPAT_V12),
                             !.on_update = <<Rule("", ExprRaise), Rule("", ExprValue)>>,
                             !.on_change = <<Rule("zz", ExprValue), Rule("b", ExprValue)>>,
                             !.methods = <<"raise", "ok">>,
                             !.logics = <<"ok">>],
         [DefaultConf EXCEPT !.trigger = <<"a">>, !.eval = ExprValue])

\* the same item with a logic that raises
ConfIsolateRaise ==
    [ConfIsolate EXCEPT !["a"].logics = <<"raise">>]

\* an item with two subscribed logics, the first of which raises when it is
\* triggered; a dependent, a cache file and autotimer = 1 = 0
ConfLogics ==
    Conf([DefaultConf EXCEPT !.cache = TRUE,
                             !.autotimer = Autotimer(S("1"), S("0"), ATTRIB_COMPAT_V12),
                             !.logics = <<"raise", "ok">>],
         [DefaultConf EXCEPT !.trigger = <<"a">>, !.eval = ExprValue])

\* enforce_updates, cache = yes and autotimer = 1 = 0, with a cache file that
\* can be written and with one that cannot
ConfWritable ==
    Conf([DefaultConf EXCEPT !.cache = TRUE, !.enforce_updates = TRUE,
                             !.autotimer = Autotimer(S("1"), S("0"), ATTRIB_COMPAT_V12)],
         DefaultConf)

ConfReadonly ==
    [ConfWritable EXCEPT !["a"].readonly = TRUE]

CacheConfigs == {ConfWritable, ConfReadonly}

\* item b is evaluated when item a changes, under a trigger condition: none,
\* True, False, 1, 2, one that raises, the value of item a; its eval gives the
\* value it is handed, raises, or gives None
CondExprs ==
    {NoExpr, ExprConst(B(TRUE)), ExprConst(B(FALSE)), ExprConst(I(1)), ExprConst(I(2)),
     ExprRaise, ExprItem("a")}
CondConfigs ==
    {Conf(DefaultConf,
          [DefaultConf EXCEPT !.trigger = <<"a">>, !.eval = e, !.condition = c,
                              !.methods = <<"ok">>]) :
        c \in CondExprs, e \in {ExprValue, ExprRaise, ExprNone}}

\* the written item a has eval = 7, eval = sh.b(), eval = value or no eval;
\* a method is subscribed to it, and item b holds 5
EvalConfigs ==
    {Conf([DefaultConf EXCEPT !.eval = e, !.methods = <<"ok">>],
          [DefaultConf EXCEPT !.value = I(5)]) :
        e \in {ExprConst(I(7)), ExprItem("b"), ExprValue, NoExpr}}

\* a number item that starts at 1, for two fade requests and direct updates
ConfThree == Conf([DefaultConf EXCEPT !.value = I(1)], [DefaultConf EXCEPT !.value = I(1)])

\* rules whose destinations form a cycle: on_update rules of two items that
\* write each other, an on_update rule that writes its own item, and
\* on_change rules of two items that write each other
ConfCycle ==
    Conf([DefaultConf EXCEPT !.on_update = <<Rule("b", ExprValue)>>],
         [DefaultConf EXCEPT !.on_update = <<Rule("a", ExprValue)>>])

ConfSelf ==
    Conf([DefaultConf EXCEPT !.on_update = <<Rule("a", ExprValue)>>], DefaultConf)

ConfChangeCycle ==
    Conf([DefaultConf EXCEPT !.on_change = <<Rule("b", ExprValue)>>],
         [DefaultConf EXCEPT !.on_change = <<Rule("a", ExprValue)>>])

CycleConfigs == {ConfCycle, ConfSelf, ConfChangeCycle}

\* values handed to item(value, caller): numbers, texts that cast, one that does not
Candidates(c) ==
    IF c \in {ConfAll} \cup CacheConfigs THEN {I(1), S("x")}
    ELSE IF c = ConfThree THEN {I(0)}
    ELSE IF c = ConfBool THEN BoolCandidates
    ELSE {I(0), I(3), S(" 2 "), S("x")}
Callers == {"Logic"}

\* values and last_change handed to item.set; -1 stands for None
SetValues(c) == {I(1), S("x")}
SetTimes(c) == IF c = ConfEnforce THEN {-1, 0} ELSE {-1}

\* the items plugins and logics write to, set timers on, and fade
Driven(c) == {"a"}
Timed(c) == IF c \in {ConfAutotimer, ConfAutotimerLoop} THEN {"a"} ELSE {}
Faded(c) ==
    IF c \in FadeConfigs \cup {ConfAll, ConfTwo, ConfThree} \cup CacheConfigs THEN {"a"} ELSE {}
FadeDests(c) == IF c \in {ConfAll, ConfThree} \cup CacheConfigs THEN {I(5)} ELSE {I(0), I(5)}
FadeSteps(c) == IF c \in {ConfAll, ConfTwo, ConfThree} \cup CacheConfigs THEN {2} ELSE {1, 2}

(***************************************************************************)
(* The registry of items: Items.__items (the paths, in the order of their  *)
(* registration) and Items.__item_dict (the item of every path).  A path is *)
(* the sequence of the names its dots separate, and so is a key of the     *)
(* configuration: the key b.c is <<"b", "c">>, and path + '.' + key is the  *)
(* concatenation.  An item is the number of its construction.              *)
(***************************************************************************)
Range(s) == {s[i] : i \in DOMAIN s}

Keys == {<<"b">>, <<"c">>, <<"b", "c">>}
MaxNest == 2
MaxItems == 4

\* a call of Item.__init__ (or of load_itemdefinitions, for item 0) that is
\* going through the dicts of its config
\* known: the type attribute of the config is one of ITEM_DEFAULTS
Frame(id, path, keys) == [id |-> id, path |-> path, keys |-> keys, known |-> TRUE]

\* failed: the items whose Item.__init__ raised
NoRegistry ==
    [stack |-> <<>>, order |-> <<>>, dict |-> <<>>, made |-> <<>>, added |-> {},
     failed |-> {}]

\* no function is under check
NoCall == [f |-> ""]

\* Items.add_item(path, item)
add_item(r, path, item) ==
    [r EXCEPT !.order = IF path \in Range(@) THEN @ ELSE Append(@, path),
              !.dict = [q \in DOMAIN @ \cup {path} |-> IF q = path THEN item ELSE @[q]],
              !.added = @ \cup {item}]

\* Items.return_item(string): the item, or 0 for None
Items_return_item(r, string) ==
    IF string \in Range(r.order) THEN r.dict[string] ELSE 0

\* Items.item_count()
item_count(r) == Len(r.order)

\* no item has held any value yet
NoneSeen == [p \in PathSet |-> [low |-> FALSE, high |-> FALSE]]

\* the record of the values held, once the items are its: low when an item
\* with a threshold held a number at or below the lower bound, high when it
\* held one at or above the upper bound
SeenOf(c, its, old) ==
    [p \in PathSet |->
        LET on == c[p].threshold.on /\ IsNumber(its[p].value) IN
        [low |-> old[p].low \/ (on /\ its[p].value.n <= c[p].threshold.low),
         high |-> old[p].high \/ (on /\ its[p].value.n >= c[p].threshold.high)]]

\* what a step did: the operation and its arguments, the value it handed to
\* self.cast (cand.ok when it got there), the trace and the exception raised
Did(op, n, raw, caller, source, cand, trace, raised) ==
    [op |-> op, n |-> n, raw |-> raw, caller |-> caller, source |-> source,
     cand |-> cand, trace |-> trace, raised |-> raised]

\* Item._init_run of every item, in registration order: an item with a trigger
\* and an eval expression hands its first evaluation to sh.trigger
RECURSIVE _init_run(_, _)
_init_run(c, i) ==
    IF i > Len(Paths) THEN <<>>
    ELSE (IF c[Paths[i]].trigger # <<>> /\ c[Paths[i]].eval.k # ""
          THEN <<EvalJob(Paths[i], NewItem(c[Paths[i]], NoFile, 0).item.value, "Init",
                         "None")>>
          ELSE <<>>) \o _init_run(c, i + 1)

InitWith(configs, jobs) ==
    /\ cfg \in configs
    /\ now = 0
    /\ cache = [p \in PathSet |-> NewItem(cfg[p], NoFile, 0).file]
    /\ items = [p \in PathSet |-> NewItem(cfg[p], NoFile, 0).item]
    /\ sched = {}
    /\ queue = _init_run(cfg, 1)
    /\ fade = [j \in jobs |-> IdleJob]
    /\ upd = <<>>
    /\ reg = NoRegistry
    /\ fn = NoCall
    /\ seen = SeenOf(cfg, items, NoneSeen)
    /\ last = Did("init", "", NoneV, "", "", Fail, <<>>, "")

Init == InitWith(Configs, {})

\* the operations that reach Item.__update
UpdateOps == {"update", "fire", "eval", "fadejob"}

\* a fade job is cut when something else than the job writes its item
CutJobs(f, before, after) ==
    [j \in DOMAIN f |->
        IF f[j].pc \notin {"idle", "done"} /\ before[f[j].item] # after[f[j].item]
        THEN [f[j] EXCEPT !.cut = TRUE] ELSE f[j]]

\* the positions of a job between its item._fading = True and its final write
Ramping == {"dir", "test", "step", "wait", "final", "clear"}

\* a fade job is hit when item n accepts an update while the job ramps it
HitJobs(f, n, accepted, before) ==
    [j \in DOMAIN f |->
        IF accepted /\ f[j].item = n /\ f[j].pc \in Ramping /\ before[n].fading
        THEN [f[j] EXCEPT !.hit = TRUE] ELSE f[j]]

\* a fade job is cancelled when a direct update of its item clears
\* item._fading (line 1018) while the job ramps it
CancelJobs(f, n, before, after) ==
    [j \in DOMAIN f |->
        IF f[j].item = n /\ f[j].pc \in Ramping /\ before[n].fading /\ ~after[n].fading
        THEN [f[j] EXCEPT !.cancelled = TRUE] ELSE f[j]]

\* the variables after an operation that ran in world w
Done(w, op, n, raw, caller, source, cand) ==
    /\ items' = w.items
    /\ sched' = w.sched
    /\ queue' = w.queue
    /\ cache' = w.cache
    /\ last' = Did(op, n, raw, caller, source, cand, w.trace, w.raised)
    /\ seen' = SeenOf(cfg, w.items, seen)
    /\ UNCHANGED <<cfg, now, upd, reg, fn>>

\* a plugin or logic calls item(value, caller)
DirectUpdate ==
    \E n \in Driven(cfg), raw \in Candidates(cfg), caller \in Callers :
        /\ Len(queue) < MaxQueue
        /\ LET w == __call__(World, n, raw, caller, "None") IN
            /\ Done(w, "update", n, raw, caller, "None", CallCand(cfg, n, raw))
            /\ fade' = CancelJobs(
                            HitJobs(CutJobs(fade, items, w.items), n,
                                    CallCand(cfg, n, raw).ok /\ Cast(cfg[n].type, raw).ok,
                                    items),
                            n, items, w.items)

\* item.set(value, caller, prev_change=, last_change=)
SetRaw ==
    \E n \in Driven(cfg), raw \in SetValues(cfg), lc \in SetTimes(cfg) :
        LET w == set(World, n, raw, "DB", -1, lc) IN
            /\ Done(w, "set", n, raw, "DB", "None", Ok(raw))
            /\ fade' = CutJobs(fade, items, w.items)

\* item.timer(time, value, auto)
TimerCall ==
    \E n \in Timed(cfg), auto \in BOOLEAN :
        LET w == timer(World, n, S("1s"), I(3), auto, "") IN
            /\ items[n].value.t = "int"
            /\ Done(w, "timer", n, I(3), IF auto THEN "Autotimer" ELSE "Timer", "", Fail)
            /\ UNCHANGED fade

\* the clock advances
Tick ==
    /\ now < MaxTime
    /\ now' = now + 1
    /\ last' = Did("tick", "", NoneV, "", "", Fail, <<>>, "")
    /\ UNCHANGED <<cfg, items, sched, queue, cache, fade, upd, reg, fn, seen>>

\* the scheduler runs a job whose time has come: obj(**value)
TimerFire ==
    \E j \in sched :
        /\ j.next <= now
        /\ Len(queue) < MaxQueue
        /\ LET w == __call__([World EXCEPT !.sched = @ \ {j}], j.item, j.value,
                             j.caller, "None") IN
            /\ Done(w, "fire", j.item, j.value, j.caller, "None",
                    CallCand(cfg, j.item, j.value))
            /\ fade' = CutJobs(fade, items, w.items)

\* a worker runs a triggered item.__run_eval
RunEvalJob ==
    \E i \in 1..Len(queue) :
        LET j == queue[i]
            rest == SubSeq(queue, 1, i - 1) \o SubSeq(queue, i + 1, Len(queue))
            w == __run_eval([World EXCEPT !.queue = rest], j.item, j.value, j.caller,
                            j.source)
        IN  /\ Done(w, "eval", j.item, j.value, j.caller, j.source,
                    EvalCand(World, j.item, j.value))
            /\ fade' = CutJobs(fade, items, w.items)

Next == DirectUpdate \/ SetRaw \/ TimerCall \/ Tick \/ TimerFire \/ RunEvalJob

Spec == Init /\ [][Next]_vars

\* eval_trigger = a | * : two patterns that match the same source
ConfTrigger ==
    Conf(DefaultConf,
         [DefaultConf EXCEPT !.trigger = <<"a", "*">>, !.eval = ExprValue])

InitTrigger == InitWith({ConfTrigger}, {})

NextTrigger == DirectUpdate \/ RunEvalJob \/ Tick

SpecTrigger == InitTrigger /\ [][NextTrigger]_vars

\* rules, methods and logics that fail
ConfRaise ==
    Conf([DefaultConf EXCEPT !.on_update = <<Rule("", ExprRaise)>>,
                             !.on_change = <<Rule("zz", ExprValue), Rule("b", ExprValue)>>,
                             !.methods = <<"raise">>,
                             !.logics = <<"raise">>],
         [DefaultConf EXCEPT !.type = "bool"])

InitRaise == InitWith({ConfRaise}, {})

NextRaise == DirectUpdate \/ Tick

SpecRaise == InitRaise /\ [][NextRaise]_vars

(***************************************************************************)
(* Restart: every item is constructed again, from its attributes and its    *)
(* cache file                                                                *)
(***************************************************************************)
\* cache = yes on both items, and initial values the updates move away from
ConfCached ==
    Conf([DefaultConf EXCEPT !.cache = TRUE, !.value = I(1),
                             !.on_change = <<Rule("b", ExprValue)>>],
         [DefaultConf EXCEPT !.type = "bool", !.cache = TRUE, !.value = B(TRUE)])

\* Item._init_run of the items constructed from the files
RECURSIVE RestartRun(_, _, _, _)
RestartRun(c, files, t, i) ==
    IF i > Len(Paths) THEN <<>>
    ELSE (IF c[Paths[i]].trigger # <<>> /\ c[Paths[i]].eval.k # ""
          THEN <<EvalJob(Paths[i], NewItem(c[Paths[i]], files[Paths[i]], t).item.value,
                         "Init", "None")>>
          ELSE <<>>) \o RestartRun(c, files, t, i + 1)

\* the process ends and starts again: Item.__init__ of every item
Restart ==
    /\ items' = [p \in PathSet |-> NewItem(cfg[p], cache[p], now).item]
    /\ cache' = [p \in PathSet |-> NewItem(cfg[p], cache[p], now).file]
    /\ sched' = {}
    /\ queue' = RestartRun(cfg, cache, now, 1)
    /\ fade' = [j \in DOMAIN fade |-> IdleJob]
    /\ last' = Did("restart", "", NoneV, "", "", Fail, <<>>, "")
    /\ seen' = SeenOf(cfg, items', NoneSeen)
    /\ UNCHANGED <<cfg, now, upd, reg, fn>>

InitRestart == InitWith({ConfCached}, {})

NextRestart == DirectUpdate \/ Tick \/ Restart

SpecRestart == InitRestart /\ [][NextRestart]_vars

\* the item world of a specification that does not touch it
InitIdle ==
    /\ cfg = ConfPlain
    /\ now = 0
    /\ cache = [p \in PathSet |-> NewItem(cfg[p], NoFile, 0).file]
    /\ items = [p \in PathSet |-> NewItem(cfg[p], NoFile, 0).item]
    /\ sched = {}
    /\ queue = <<>>
    /\ fade = <<>>
    /\ upd = <<>>
    /\ seen = SeenOf(cfg, items, NoneSeen)
    /\ last = Did("init", "", NoneV, "", "", Fail, <<>>, "")

(***************************************************************************)
(* load_itemdefinitions and the child items of Item.__init__               *)
(***************************************************************************)
\* child = Item(smarthome, self, child_path, value) for a key whose value is
\* a dict: the new item starts to go through the dicts of its own config
Construct ==
    \E k \in reg.stack[Len(reg.stack)].keys, sub \in SUBSET Keys :
        LET top == reg.stack[Len(reg.stack)]
            id == Len(reg.made) + 1
        IN  /\ Len(reg.made) < MaxItems
            /\ Len(reg.stack) <= MaxNest \/ sub = {}
            /\ reg' = [reg EXCEPT
                          !.stack = Append([@ EXCEPT ![Len(@)].keys = top.keys \ {k}],
                                           Frame(id, top.path \o k, sub)),
                          !.made = Append(@, top.path \o k)]
            /\ last' = Did("construct", "", NoneV, "", "", Fail, <<>>, "")
            /\ UNCHANGED <<cfg, items, sched, queue, cache, now, fade, upd, fn, seen>>

\* the children of the item are done (lines 464-474) and the rest of its
\* __init__ runs: an unknown type raises AttributeError (line 497), which the
\* constructing parent catches (lines 469-470, 97-98); otherwise the item is
\* constructed: _items_instance.add_item(child_path, child)
Register ==
    LET top == reg.stack[Len(reg.stack)] IN
        /\ Len(reg.stack) > 1
        /\ top.keys = {}
        /\ reg' = IF top.known
                  THEN add_item([reg EXCEPT !.stack = SubSeq(@, 1, Len(@) - 1)],
                                top.path, top.id)
                  ELSE [reg EXCEPT !.stack = SubSeq(@, 1, Len(@) - 1),
                                   !.failed = @ \cup {top.id}]
        /\ last' = Did("add_item", "", NoneV, "", "", Fail, <<>>, "")
        /\ UNCHANGED <<cfg, items, sched, queue, cache, now, fade, upd, fn, seen>>

\* keys without dots, and types that are known or not
SubKeys == {<<"b">>, <<"c">>}

\* child = Item(smarthome, self, child_path, value), the type of the child
\* being any string
ConstructTyped ==
    \E k \in reg.stack[Len(reg.stack)].keys, sub \in SUBSET SubKeys, known \in BOOLEAN :
        LET top == reg.stack[Len(reg.stack)]
            id == Len(reg.made) + 1
        IN  /\ Len(reg.made) < MaxItems
            /\ Len(reg.stack) <= MaxNest \/ sub = {}
            /\ reg' = [reg EXCEPT
                          !.stack = Append([@ EXCEPT ![Len(@)].keys = top.keys \ {k}],
                                           [Frame(id, top.path \o k, sub)
                                                EXCEPT !.known = known]),
                          !.made = Append(@, top.path \o k)]
            /\ last' = Did("construct", "", NoneV, "", "", Fail, <<>>, "")
            /\ UNCHANGED <<cfg, items, sched, queue, cache, now, fade, upd, fn, seen>>

InitSubtree ==
    /\ InitIdle
    /\ fn = NoCall
    /\ reg \in {[NoRegistry EXCEPT !.stack = <<Frame(0, <<>>, keys)>>] :
                    keys \in SUBSET SubKeys}

NextSubtree == ConstructTyped \/ Register

SpecSubtree == InitSubtree /\ [][NextSubtree]_vars

InitRegistry ==
    /\ cfg = ConfPlain
    /\ now = 0
    /\ cache = [p \in PathSet |-> NewItem(cfg[p], NoFile, 0).file]
    /\ items = [p \in PathSet |-> NewItem(cfg[p], NoFile, 0).item]
    /\ sched = {}
    /\ queue = <<>>
    /\ fade = <<>>
    /\ upd = <<>>
    /\ reg \in {[NoRegistry EXCEPT !.stack = <<Frame(0, <<>>, keys)>>] :
                    keys \in SUBSET Keys}
    /\ fn = NoCall
    /\ seen = SeenOf(cfg, items, NoneSeen)
    /\ last = Did("init", "", NoneV, "", "", Fail, <<>>, "")

NextRegistry == Construct \/ Register

SpecRegistry == InitRegistry /\ [][NextRegistry]_vars

(***************************************************************************)
(* Plugin attributes of a chain of items: a top level item, its child and  *)
(* the child of the child, each with one value for the same attribute      *)
(***************************************************************************)
NoAttr == "<absent>"
AttrValues == {"x", "y", "..", "...", NoAttr}

\* Item._get_attr_from_parent(attr): pitem.conf[attr]; the parent of a top
\* level item is the Items object, which has no conf (AttributeError), and a
\* parent without the attribute gives a KeyError
_get_attr_from_parent(conf, i) ==
    IF i = 1 \/ conf[i - 1] = NoAttr THEN Fail ELSE Ok(conf[i - 1])

\* Item._get_attr_from_grandparent(attr): gpitem is looked up, and the value
\* returned is pitem.conf[attr]
_get_attr_from_grandparent(conf, i) ==
    IF i = 1 \/ conf[i - 1] = NoAttr THEN Fail ELSE Ok(conf[i - 1])

\* lines 453-460: self.conf[attr] of item i, given the conf of the items above
PluginAttr(value, conf, i) ==
    IF value = ".." THEN _get_attr_from_parent(conf, i)
    ELSE IF value = "..." THEN _get_attr_from_grandparent(conf, i)
    ELSE Ok(value)

\* Item.__init__ of the next item of the chain parses its attribute; an
\* exception ends the construction of the item and of everything below it
ParseAttr ==
    LET i == Len(fn.conf) + 1
        r == PluginAttr(fn.config[i], fn.conf, i)
    IN  /\ fn.f = "attr"
        /\ ~fn.raised
        /\ i <= Len(fn.config)
        /\ fn' = IF r.ok THEN [fn EXCEPT !.conf = Append(@, r.v)]
                 ELSE [fn EXCEPT !.raised = TRUE]
        /\ last' = Did("attr", "", NoneV, "", "", Fail, <<>>, "")
        /\ UNCHANGED <<cfg, items, sched, queue, cache, now, fade, upd, reg, seen>>

InitAttr ==
    /\ InitIdle
    /\ reg = NoRegistry
    /\ fn \in {[f |-> "attr", config |-> <<g, p, c>>, conf |-> <<>>, raised |-> FALSE] :
                g \in AttrValues, p \in AttrValues, c \in AttrValues}

NextAttr == ParseAttr

SpecAttr == InitAttr /\ [][NextAttr]_vars

(***************************************************************************)
(* Item.get_absolutepath.  A Python str is the sequence of its characters. *)
(***************************************************************************)
MaxSegments == 3
MaxDots == 4

\* the characters of a name
Chars(name) ==
    CASE name = "a" -> <<"a">>
      [] name = "b" -> <<"b">>
      [] name = "self" -> <<"s", "e", "l", "f">>
      [] name = "selfy" -> <<"s", "e", "l", "f", "y">>
      [] OTHER -> <<>>

\* '.'.join(names)
RECURSIVE Join(_)
Join(names) ==
    IF names = <<>> THEN <<>>
    ELSE IF Len(names) = 1 THEN Chars(names[1])
    ELSE Chars(names[1]) \o <<".">> \o Join(Tail(names))

\* k dots
RECURSIVE Dots(_)
Dots(k) == IF k = 0 THEN <<>> ELSE <<".">> \o Dots(k - 1)

\* str.rstrip()
RECURSIVE rstrip(_)
rstrip(str) ==
    IF str # <<>> /\ str[Len(str)] = " " THEN rstrip(SubSeq(str, 1, Len(str) - 1))
    ELSE str

\* str.rfind('.'): the position of the last dot counted from 1, or 0
rfind(str) ==
    IF \E i \in DOMAIN str : str[i] = "."
    THEN CHOOSE i \in DOMAIN str : str[i] = "." /\ \A j \in DOMAIN str : str[j] = "." => j <= i
    ELSE 0

\* str.replace(old, new): every occurrence, from the left, without overlap
RECURSIVE replace(_, _, _)
replace(str, old, new) ==
    IF Len(str) < Len(old) THEN str
    ELSE IF SubSeq(str, 1, Len(old)) = old
         THEN new \o replace(SubSeq(str, Len(old) + 1, Len(str)), old, new)
         ELSE <<str[1]>> \o replace(Tail(str), old, new)

\* lines 732-742: the while loop, giving <<relpath, rootpath>>
RECURSIVE WalkUp(_, _)
WalkUp(relpath, rootpath) ==
    IF relpath # <<>> /\ relpath[1] = "."
    THEN IF Len(relpath) > 1 /\ relpath[2] = "."
         THEN IF rfind(rootpath) = 0
              THEN IF rootpath = <<>>
                   THEN WalkUp(<<>>, rootpath)
                   ELSE WalkUp(Tail(relpath), <<>>)
              ELSE WalkUp(Tail(relpath), SubSeq(rootpath, 1, rfind(rootpath) - 1))
         ELSE WalkUp(Tail(relpath), rootpath)
    ELSE <<relpath, rootpath>>

\* lines 744-753
Canonical(relpath, rootpath) ==
    LET joined == IF relpath # <<>>
                  THEN IF rootpath # <<>> THEN rootpath \o <<".">> \o relpath ELSE relpath
                  ELSE rootpath
        cut == IF Len(joined) >= 5
                  /\ SubSeq(joined, Len(joined) - 4, Len(joined)) = <<".">> \o Chars("self")
               THEN replace(joined, <<".">> \o Chars("self"), <<>>)
               ELSE joined
    IN  replace(cut, <<".">> \o Chars("self") \o <<".">>, <<".">>)

\* Item.get_absolutepath(relativepath) of the item with path path
get_absolutepath(path, relativepath) ==
    IF relativepath = <<>> \/ relativepath[1] # "." THEN relativepath
    ELSE Canonical(WalkUp(rstrip(relativepath), path)[1],
                   WalkUp(rstrip(relativepath), path)[2])

\* the names of items, and the last names of relative paths
ItemNames == {"a", "b", "selfy"}
LastNames == {"b", "self"}

RECURSIVE NameSeqs(_)
NameSeqs(n) ==
    IF n = 0 THEN {<<>>}
    ELSE NameSeqs(n - 1) \cup {Append(q, x) : q \in NameSeqs(n - 1), x \in ItemNames}

\* item.get_absolutepath(relativepath)
Expand ==
    /\ fn.f = "path"
    /\ ~fn.done
    /\ fn' = [fn EXCEPT !.done = TRUE,
                        !.result = get_absolutepath(Join(fn.names),
                                                    Dots(fn.k) \o Chars(fn.r) \o fn.pad)]
    /\ last' = Did("path", "", NoneV, "", "", Fail, <<>>, "")
    /\ UNCHANGED <<cfg, items, sched, queue, cache, now, fade, upd, reg, seen>>

\* an item with names as its path is asked for k dots, then r, then pad
InitPath ==
    /\ InitIdle
    /\ reg = NoRegistry
    /\ fn \in {[f |-> "path", names |-> names, k |-> k, r |-> r, pad |-> pad,
                 done |-> FALSE, result |-> <<>>] :
                names \in NameSeqs(MaxSegments) \ {<<>>}, k \in 0..MaxDots,
                r \in LastNames, pad \in {<<>>, <<" ">>}}

NextPath == Expand

SpecPath == InitPath /\ [][NextPath]_vars

(***************************************************************************)
(* The end of load_itemdefinitions, item by item: fn.k calls are made,      *)
(* fn.deps[p] is _items_to_trigger of item p as built so far, and           *)
(* fn.submitted lists the items whose first evaluation went to sh.trigger.  *)
(***************************************************************************)
\* a single loop that calls _init_prerun and _init_run of an item in one turn
LoadOnePass ==
    [k \in 1..2 * Len(Paths) |->
        IF k % 2 = 1 THEN <<"prerun", Paths[(k + 1) \div 2]>>
        ELSE <<"run", Paths[k \div 2]>>]

\* lines 106-109: the calls in the order the two loops make them
load_itemdefinitions ==
    [k \in 1..2 * Len(Paths) |->
        IF k <= Len(Paths) THEN <<"prerun", Paths[k]>>
        ELSE <<"run", Paths[k - Len(Paths)]>>]

\* Item._init_prerun of item d: d is appended to _items_to_trigger of every
\* item its patterns match, d itself left out
_init_prerun(c, deps, d) ==
    [p \in PathSet |->
        deps[p] \o [j \in 1..Len(SelectSeq(TriggerSources(c[d].trigger, 1),
                                           LAMBDA x : x = p /\ x # d)) |-> d]]

\* Item._init_run of item d: what it hands to sh.trigger
InitRunOf(c, its, d) ==
    IF c[d].trigger # <<>> /\ c[d].eval.k # ""
    THEN <<EvalJob(d, its[d].value, "Init", "None")>>
    ELSE <<>>

\* the next call of the loops
LoadStep ==
    /\ fn.f = "load"
    /\ fn.k < Len(load_itemdefinitions)
    /\ LET call == load_itemdefinitions[fn.k + 1] IN
        IF call[1] = "prerun"
        THEN /\ fn' = [fn EXCEPT !.k = @ + 1,
                                 !.deps = _init_prerun(cfg, fn.deps, call[2])]
             /\ UNCHANGED queue
        ELSE /\ fn' = [fn EXCEPT !.k = @ + 1,
                                 !.submitted =
                                    @ \o [j \in 1..Len(InitRunOf(cfg, items, call[2])) |->
                                            call[2]]]
             /\ queue' = queue \o InitRunOf(cfg, items, call[2])
    /\ last' = Did("load", "", NoneV, "", "", Fail, <<>>, "")
    /\ UNCHANGED <<cfg, items, sched, cache, now, fade, upd, reg, seen>>

\* eval_trigger and eval of the two items, in every combination
LoadTriggers == {<<>>, <<"a">>, <<"b">>, <<"*">>}
LoadConfigs ==
    {Conf([DefaultConf EXCEPT !.value = I(1), !.trigger = ta, !.eval = ea],
          [DefaultConf EXCEPT !.trigger = tb, !.eval = eb]) :
        ta \in LoadTriggers, tb \in LoadTriggers,
        ea \in {NoExpr, ExprValue}, eb \in {NoExpr, ExprValue}}

\* every item is constructed and registered, no call of the loops is made yet
InitLoad ==
    /\ cfg \in LoadConfigs
    /\ now = 0
    /\ cache = [p \in PathSet |-> NewItem(cfg[p], NoFile, 0).file]
    /\ items = [p \in PathSet |-> NewItem(cfg[p], NoFile, 0).item]
    /\ sched = {}
    /\ queue = <<>>
    /\ fade = <<>>
    /\ upd = <<>>
    /\ reg = NoRegistry
    /\ fn = [f |-> "load", k |-> 0, deps |-> [p \in PathSet |-> <<>>], submitted |-> <<>>]
    /\ seen = SeenOf(cfg, items, NoneSeen)
    /\ last = Did("init", "", NoneV, "", "", Fail, <<>>, "")

NextLoad == LoadStep \/ RunEvalJob

SpecLoad == InitLoad /\ [][NextLoad]_vars

\* a bool item and everything _cast_bool may be handed
InitBool == InitWith({ConfBool}, {})

NextBool == DirectUpdate \/ Tick

SpecBool == InitBool /\ [][NextBool]_vars

\* threshold items that start below and between the bounds
InitThreshold == InitWith({ConfThreshold, ConfThresholdMid}, {})

NextThreshold == DirectUpdate \/ SetRaw \/ Tick

SpecThreshold == InitThreshold /\ [][NextThreshold]_vars

\* updates, timer fires and eval jobs of the item with everything
InitOrder == InitWith({ConfOrder}, {})

NextOrder == DirectUpdate \/ Tick \/ TimerFire \/ RunEvalJob

SpecOrder == InitOrder /\ [][NextOrder]_vars

\* updates, timer fires and eval jobs of the items with failing rules and methods
InitIsolate == InitWith({ConfIsolate, ConfIsolateRaise}, {})

NextIsolate == DirectUpdate \/ Tick \/ TimerFire \/ RunEvalJob

SpecIsolate == InitIsolate /\ [][NextIsolate]_vars

\* updates and eval jobs of the item whose first logic raises
InitLogics == InitWith({ConfLogics}, {})

NextLogics == DirectUpdate \/ Tick \/ RunEvalJob

SpecLogics == InitLogics /\ [][NextLogics]_vars

(***************************************************************************)
(* Item.__update called by two threads: the steps of one call                *)
(***************************************************************************)
ConfRace ==
    Conf([DefaultConf EXCEPT !.cache = TRUE, !.on_change = <<Rule("b", ExprValue)>>],
         DefaultConf)

RaceValues == {I(1), I(3), S("x")}

\* arg is the value a call has read for _cache_write and not yet written
IdleCall ==
    [pc |-> "idle", n |-> "", value |-> NoneV, caller |-> "", changed |-> FALSE,
     arg |-> NoneV]

\* the variables after a step of a call that ran in world w
Stepped(w, t, n, pc) ==
    /\ items' = w.items
    /\ sched' = w.sched
    /\ queue' = w.queue
    /\ cache' = w.cache
    /\ upd' = [upd EXCEPT ![t].pc = pc]
    /\ last' = Did("call", n, upd[t].value, upd[t].caller, "None", Ok(upd[t].value),
                   w.trace, w.raised)
    /\ seen' = SeenOf(cfg, w.items, seen)
    /\ UNCHANGED <<cfg, now, fade, reg, fn>>

\* lines 999-1029: the cast, then the commit between acquire and release
CallCommit ==
    \E t \in DOMAIN upd, n \in Driven(cfg), raw \in RaceValues, caller \in Callers :
        LET c == Cast(cfg[n].type, raw)
            w == IF c.ok
                 THEN Emit(Commit(World, n, c.v, caller, "None"),
                           Ev("commit", n, 1, IF PyEq(c.v, items[n].value) THEN 0 ELSE 1))
                 ELSE World
        IN  /\ upd[t].pc = "idle"
            /\ items' = w.items
            /\ upd' = [upd EXCEPT ![t] =
                          IF c.ok
                          THEN [pc |-> "on_update", n |-> n, value |-> c.v,
                                caller |-> caller,
                                changed |-> ~PyEq(c.v, items[n].value),
                                arg |-> NoneV]
                          ELSE [IdleCall EXCEPT !.pc = "done", !.n = n]]
            /\ last' = Did("call", n, raw, caller, "None", Ok(raw), w.trace, w.raised)
            /\ seen' = SeenOf(cfg, w.items, seen)
            /\ UNCHANGED <<cfg, sched, queue, cache, now, fade, reg, fn>>

\* line 1031
CallOnUpdate ==
    \E t \in DOMAIN upd :
        /\ upd[t].pc = "on_update"
        /\ Stepped(OnUpdateStep(World, upd[t].n, upd[t].value, 1, 0), t, upd[t].n, "gate")

\* lines 1032-1053
CallGateBlock ==
    \E t \in DOMAIN upd :
        /\ upd[t].pc = "gate"
        /\ Stepped(GateBlock(World, upd[t].n, upd[t].value, 1,
                             Gate(World, upd[t].n, upd[t].changed), 0),
                   t, upd[t].n, "cache")

\* lines 1054-1058
CallCache ==
    \E t \in DOMAIN upd :
        /\ upd[t].pc = "cache"
        /\ Stepped(CacheGuard(World, upd[t].n, 1, upd[t].changed), t, upd[t].n,
                   "autotimer")

\* lines 1059-1076, then the return
CallAutotimer ==
    \E t \in DOMAIN upd :
        /\ upd[t].pc = "autotimer"
        /\ Stepped(AutotimerGuard(World, upd[t].n, 1, upd[t].caller), t, upd[t].n,
                   "done")

InitRace ==
    /\ cfg = ConfRace
    /\ now = 0
    /\ cache = [p \in PathSet |-> NewItem(cfg[p], NoFile, 0).file]
    /\ items = [p \in PathSet |-> NewItem(cfg[p], NoFile, 0).item]
    /\ sched = {}
    /\ queue = _init_run(cfg, 1)
    /\ fade = <<>>
    /\ upd = [t \in {1, 2} |-> IdleCall]
    /\ reg = NoRegistry
    /\ fn = NoCall
    /\ seen = SeenOf(cfg, items, NoneSeen)
    /\ last = Did("init", "", NoneV, "", "", Fail, <<>>, "")

NextRace == CallCommit \/ CallOnUpdate \/ CallGateBlock \/ CallCache \/ CallAutotimer

SpecRace == InitRace /\ [][NextRace]_vars

\* line 1054 and the argument of line 1056: the call tests _changed, _cache
\* and _fading and reads self._value
CallCacheRead ==
    \E t \in DOMAIN upd :
        /\ upd[t].pc = "cache"
        /\ upd' = [upd EXCEPT ![t].pc =
                                IF upd[t].changed /\ cfg[upd[t].n].cache
                                   /\ ~items[upd[t].n].fading
                                THEN "write" ELSE "autotimer",
                              ![t].arg = items[upd[t].n].value]
        /\ last' = Did("call", upd[t].n, upd[t].value, upd[t].caller, "None",
                       Ok(upd[t].value), <<>>, "")
        /\ UNCHANGED <<cfg, items, sched, queue, cache, now, fade, reg, fn, seen>>

\* line 1056: _cache_write writes the value that was read
CallCacheWrite ==
    \E t \in DOMAIN upd :
        /\ upd[t].pc = "write"
        /\ Stepped(Emit(_cache_write(World, upd[t].n, upd[t].arg),
                        Ev("cache", upd[t].n, 1, 0)),
                   t, upd[t].n, "autotimer")

\* two calls, the cache step taken apart into its read and its write
NextRace2 ==
    \/ CallCommit \/ CallOnUpdate \/ CallGateBlock \/ CallCacheRead \/ CallCacheWrite
    \/ CallAutotimer

SpecRace2 == InitRace /\ [][NextRace2]_vars

\* threshold = 0:1 with a subscribed logic, on an item that two threads update
ConfRaceThreshold ==
    Conf([DefaultConf EXCEPT !.threshold = Threshold(0, 1), !.logics = <<"ok">>],
         DefaultConf)

\* lines 1032-1046: the stamps, the on_change rules and the methods, then the
\* test of the crossed flag and the value; arg is the flag the call is about
\* to set
CallGateTest ==
    \E t \in DOMAIN upd :
        LET n == upd[t].n
            w == IF Gate(World, n, upd[t].changed)
                 THEN RunMethods(OnChangeStep(World, n, upd[t].value, 1, 0), n, 1, 1)
                 ELSE World
            it == w.items[n]
            th == cfg[n].threshold
            low == it.th_crossed /\ it.value.n <= th.low
            high == ~it.th_crossed /\ it.value.n >= th.high
        IN  /\ upd[t].pc = "gate"
            /\ th.on /\ Len(cfg[n].logics) > 0 /\ IsNumber(it.value)
            /\ items' = w.items
            /\ sched' = w.sched
            /\ queue' = w.queue
            /\ cache' = w.cache
            /\ upd' = [upd EXCEPT ![t].pc = IF ~Gate(World, n, upd[t].changed) THEN "cache"
                                            ELSE IF low \/ high THEN "fire"
                                            ELSE "trigger",
                                  ![t].arg = B(~low /\ high)]
            /\ last' = Did("call", n, upd[t].value, upd[t].caller, "None",
                           Ok(upd[t].value), w.trace, w.raised)
            /\ seen' = SeenOf(cfg, w.items, seen)
            /\ UNCHANGED <<cfg, now, fade, reg, fn>>

\* lines 1044-1045 and 1047-1048: the flag is set and the logics are triggered
CallFire ==
    \E t \in DOMAIN upd :
        /\ upd[t].pc = "fire"
        /\ Stepped(__trigger_logics(
                        [World EXCEPT !.items[upd[t].n].th_crossed = (upd[t].arg = B(TRUE))],
                        upd[t].n, 1, 1),
                   t, upd[t].n, "trigger")

\* lines 1051-1053
CallTrigger ==
    \E t \in DOMAIN upd :
        /\ upd[t].pc = "trigger"
        /\ Stepped(TriggerStep(World, upd[t].n, upd[t].value, 1), t, upd[t].n, "cache")

InitRace3 ==
    /\ cfg = ConfRaceThreshold
    /\ now = 0
    /\ cache = [p \in PathSet |-> NewItem(cfg[p], NoFile, 0).file]
    /\ items = [p \in PathSet |-> NewItem(cfg[p], NoFile, 0).item]
    /\ sched = {}
    /\ queue = _init_run(cfg, 1)
    /\ fade = <<>>
    /\ upd = [t \in {1, 2} |-> IdleCall]
    /\ reg = NoRegistry
    /\ fn = NoCall
    /\ seen = SeenOf(cfg, items, NoneSeen)
    /\ last = Did("init", "", NoneV, "", "", Fail, <<>>, "")

\* two calls on the threshold item, the test of the flag apart from its setting
NextRace3 ==
    \/ CallCommit \/ CallOnUpdate \/ CallGateTest \/ CallFire \/ CallTrigger
    \/ CallCache \/ CallAutotimer

SpecRace3 == InitRace3 /\ [][NextRace3]_vars

(***************************************************************************)
(* Fading: item.fade(dest, step, delta) and the steps of _fadejob          *)
(***************************************************************************)
Stay(op, n) ==
    /\ last' = Did(op, n, NoneV, "", "", Fail, <<>>, "")
    /\ UNCHANGED <<cfg, sched, queue, cache, now, upd, reg, fn, seen>>

\* Item.fade: dest = float(dest), then sh.trigger(self._path, _fadejob, ...)
FadeRequest ==
    \E j \in DOMAIN fade, n \in Faded(cfg), dest \in FadeDests(cfg),
       step \in FadeSteps(cfg) :
        /\ fade[j].pc = "idle"
        /\ PyFloat(dest).ok
        /\ fade' = [fade EXCEPT ![j] = [IdleJob EXCEPT !.pc = "start", !.item = n,
                                                       !.dest = PyFloat(dest).v,
                                                       !.step = step]]
        /\ Stay("fade", n)
        /\ UNCHANGED items

\* line 1424: if item._fading: return
FadeStart ==
    \E j \in DOMAIN fade :
        /\ fade[j].pc = "start"
        /\ fade' = [fade EXCEPT ![j].pc = FadeEntry(items[fade[j].item])]
        /\ Stay("fadejob", fade[j].item)
        /\ UNCHANGED items

\* line 1427: item._fading = True
FadeSet ==
    \E j \in DOMAIN fade :
        /\ fade[j].pc = "set"
        /\ items' = [items EXCEPT ![fade[j].item].fading = TRUE]
        /\ fade' = [fade EXCEPT ![j].pc = "dir"]
        /\ Stay("fadejob", fade[j].item)

\* line 1428: if item._value < dest
FadeDir ==
    \E j \in DOMAIN fade :
        /\ fade[j].pc = "dir"
        /\ fade' = [fade EXCEPT ![j].pc = "test",
                                ![j].v0 = items[fade[j].item].value,
                                ![j].up = items[fade[j].item].value.n < fade[j].dest.n]
        /\ Stay("fadejob", fade[j].item)
        /\ UNCHANGED items

\* lines 1429 and 1435: the while condition
FadeTest ==
    \E j \in DOMAIN fade :
        /\ fade[j].pc = "test"
        /\ fade' = [fade EXCEPT ![j].pc = IF FadeLoopTest(items[fade[j].item], fade[j])
                                          THEN "step" ELSE "final"]
        /\ Stay("fadejob", fade[j].item)
        /\ UNCHANGED items

\* the job calls item(value, caller); issued keeps the writes of an undisturbed job
FadeCall(j, value, caller, pc) ==
    LET w == __call__(World, fade[j].item, value, caller, "None") IN
        /\ Done(w, "fadejob", fade[j].item, value, caller, "None",
                CallCand(cfg, fade[j].item, value))
        /\ fade' = [CutJobs(fade, items, w.items) EXCEPT
                        ![j] = [fade[j] EXCEPT
                                   !.pc = pc,
                                   !.issued = IF fade[j].cut THEN @
                                              ELSE Append(@, <<value, caller>>)]]

\* lines 1430 and 1436: item(item._value +/- step, 'fader')
FadeStep ==
    \E j \in DOMAIN fade :
        /\ fade[j].pc = "step"
        /\ FadeCall(j, FadeNext(items[fade[j].item], fade[j]), "fader", "wait")

\* lines 1431-1433: item._lock.wait(delta) returns, woken or timed out
FadeWait ==
    \E j \in DOMAIN fade :
        /\ fade[j].pc = "wait"
        /\ fade' = [fade EXCEPT ![j].pc = "test"]
        /\ Stay("fadejob", fade[j].item)
        /\ UNCHANGED items

\* line 1440: if item._fading
FadeFinalTest ==
    \E j \in DOMAIN fade :
        /\ fade[j].pc = "final"
        /\ fade' = [fade EXCEPT ![j].pc = IF items[fade[j].item].fading THEN "clear"
                                          ELSE "done"]
        /\ Stay("fadejob", fade[j].item)
        /\ UNCHANGED items

\* line 1441: item._fading = False
FadeClear ==
    \E j \in DOMAIN fade :
        /\ fade[j].pc = "clear"
        /\ items' = [items EXCEPT ![fade[j].item].fading = FALSE]
        /\ fade' = [fade EXCEPT ![j].pc = "write"]
        /\ Stay("fadejob", fade[j].item)

\* line 1442: item(dest, 'Fader')
FadeFinal ==
    \E j \in DOMAIN fade :
        /\ fade[j].pc = "write"
        /\ FadeCall(j, fade[j].dest, "Fader", "done")

FadeJobStep ==
    \/ FadeStart \/ FadeSet \/ FadeDir \/ FadeTest \/ FadeStep \/ FadeWait
    \/ FadeFinalTest \/ FadeClear \/ FadeFinal

InitFade == InitWith(FadeConfigs, {1})

NextFade == FadeRequest \/ FadeJobStep \/ DirectUpdate

SpecFade == InitFade /\ [][NextFade]_vars

\* Items.stop: item._fading = False for every item; a job that is ramping its
\* item at that moment is marked stopped
Stop ==
    /\ items' = [p \in PathSet |-> [items[p] EXCEPT !.fading = FALSE]]
    /\ fade' = [j \in DOMAIN fade |->
                    IF fade[j].pc \in Ramping
                    THEN [fade[j] EXCEPT !.stopped = TRUE,
                                         !.cancelled = @ \/ items[fade[j].item].fading]
                    ELSE fade[j]]
    /\ Stay("stop", "")

\* fading and shutdown
InitStop == InitWith({ConfPlain}, {1})

NextStop == FadeRequest \/ FadeJobStep \/ Stop

SpecStop == InitStop /\ [][NextStop]_vars

\* two fade jobs on one item and direct updates of the item
InitFade3 == InitWith({ConfThree}, {1, 2})

NextFade3 == FadeRequest \/ FadeJobStep \/ DirectUpdate

SpecFade3 == InitFade3 /\ [][NextFade3]_vars

\* two fade requests on one item
InitFade2 == InitWith({ConfTwo}, {1, 2})

NextFade2 == FadeRequest \/ FadeJobStep

SpecFade2 == InitFade2 /\ [][NextFade2]_vars

\* every kind of operation on one item
InitAll == InitWith({ConfAll}, {1})

NextAll == DirectUpdate \/ SetRaw \/ Tick \/ TimerFire \/ FadeRequest \/ FadeJobStep

SpecAll == InitAll /\ [][NextAll]_vars

\* updates of item a and the evaluations of item b they set off
InitCond == InitWith(CondConfigs, {})

NextCond == DirectUpdate \/ RunEvalJob \/ Tick

SpecCond == InitCond /\ [][NextCond]_vars

\* updates of items whose rules form a cycle
InitCycle == InitWith(CycleConfigs, {})

NextCycle == DirectUpdate \/ SetRaw \/ Tick

SpecCycle == InitCycle /\ [][NextCycle]_vars

\* writes to an item with an eval expression, and the evaluations they queue
InitEval == InitWith(EvalConfigs, {})

NextEval == DirectUpdate \/ RunEvalJob \/ Tick

SpecEval == InitEval /\ [][NextEval]_vars

\* updates, timer fires and a fade job on the items with a cache file
InitCache == InitWith(CacheConfigs, {1})

NextCache == DirectUpdate \/ Tick \/ TimerFire \/ FadeRequest \/ FadeJobStep

SpecCache == InitCache /\ [][NextCache]_vars

(***************************************************************************)
(* Properties                                                              *)
(***************************************************************************)

\* the step handed a value to the cast of item last'.n, and what the cast gave
CastOk == last'.cand.ok /\ Cast(cfg[last'.n].type, last'.cand.v).ok
CastFailed == last'.cand.ok /\ ~Cast(cfg[last'.n].type, last'.cand.v).ok
CastValue == Cast(cfg[last'.n].type, last'.cand.v).v

\* the number of times the step committed an update of item n
CommitsOn(trace, n) ==
    Cardinality({i \in DOMAIN trace : trace[i].e = "commit" /\ trace[i].n = n})

\* C1: an update whose candidate fails the cast of the item's type changes no
\* field of any item, runs no rule, method or logic, enqueues no dependent,
\* writes no cache file and schedules no timer.
C1_FailedCastChangesNothing ==
    [][(last'.op \in UpdateOps /\ CastFailed) =>
            /\ items' = items
            /\ cache' = cache
            /\ sched' \subseteq sched
            /\ Len(queue') <= Len(queue)
            /\ last'.trace = <<>>]_vars

\* a rejected update of an item that has rules, subscribers, a dependent and a cache
C1_Witness ==
    /\ cfg = ConfRules
    /\ last.op = "update"
    /\ last.cand.ok
    /\ ~Cast(cfg[last.n].type, last.cand.v).ok
    /\ items[last.n].value = I(3)

\* C2: the value of every item is always an instance of the item's type (casting
\* it again succeeds and gives the same value), and an assignment by update,
\* timer, fade job or set whose cast fails leaves the value as it was.
C2_ValueAlwaysValid ==
    /\ [](\A p \in PathSet : /\ Cast(cfg[p].type, items[p].value).ok
                             /\ Cast(cfg[p].type, items[p].value).v = items[p].value)
    /\ [][(last'.op \in UpdateOps \cup {"set"} /\ CastFailed) =>
                items'[last'.n].value = items[last'.n].value]_vars

\* a set that is rejected after a fade reached its target and the autotimer fired
C2_Witness ==
    /\ last.op = "set"
    /\ ~Cast(cfg[last.n].type, last.cand.v).ok
    /\ fade[1].pc = "done"
    /\ fade[1].issued # <<>>
    /\ items["a"].changed_by = By("Autotimer", "None")

\* C3: an update whose cast succeeds records updated_by = caller:source whether
\* or not the value changes; value, prev_value, last_change, prev_change and
\* changed_by change only when the cast value differs from the value, and then
\* prev_value is the old value, prev_change the old last_change and changed_by
\* caller:source.  (Steps in which rules write the item a second time are left out.)
C3_CommitFrame ==
    [][(last'.op \in UpdateOps /\ CastOk /\ CommitsOn(last'.trace, last'.n) = 1) =>
            LET old == items[last'.n]
                new == items'[last'.n]
                by == By(last'.caller, last'.source)
            IN  /\ new.updated_by = by
                /\ IF ~PyEq(CastValue, old.value)
                   THEN /\ new.value = CastValue
                        /\ new.prev_value = old.value
                        /\ new.prev_change = old.last_change
                        /\ new.last_change = now
                        /\ new.changed_by = by
                   ELSE /\ new.value = old.value
                        /\ new.prev_value = old.prev_value
                        /\ new.prev_change = old.prev_change
                        /\ new.last_change = old.last_change
                        /\ new.changed_by = old.changed_by]_vars

\* an accepted update that did not change the value: updated_by names the
\* caller, changed_by still names the construction
C3_Witness ==
    /\ last.op = "update"
    /\ Ev("commit", last.n, 1, 0) \in Range(last.trace)
    /\ items[last.n].updated_by = By("Logic", "None")
    /\ items[last.n].changed_by = By("Init", "None")

\* the step is an accepted update of item last'.n; its own events carry number 1
Ran(e, n, i) == Ev(e, n, 1, i) \in Range(last'.trace)
Changed == ~PyEq(CastValue, items[last'.n].value)
GateOpen ==
    Changed \/ cfg[last'.n].enforce_updates \/ cfg[last'.n].type = "scene"
Dependents == ItemsToTrigger(cfg, last'.n, 1)

\* what C4 says of rules, methods and dependents
RulesMethodsDependents ==
    /\ \A i \in DOMAIN cfg[last'.n].on_update : Ran("on_update", last'.n, i)
    /\ \A i \in DOMAIN cfg[last'.n].on_change : Ran("on_change", last'.n, i) <=> GateOpen
    /\ \A i \in DOMAIN cfg[last'.n].methods : Ran("method", last'.n, i) <=> GateOpen
    /\ \A i \in DOMAIN Dependents : Ran("trigger", Dependents[i], i) <=> GateOpen

\* C4 as stated: on_update rules run on every accepted update; on_change rules,
\* methods, logics and dependent notifications run if and only if the value
\* changed, enforce_updates is set or the type is scene.
C4_FanOutGate ==
    [][(last'.op \in UpdateOps /\ CastOk) =>
            /\ RulesMethodsDependents
            /\ \A i \in DOMAIN cfg[last'.n].logics :
                    Ran("logic", last'.n, i) <=> GateOpen]_vars

\* C4, amended: as stated for on_update rules, on_change rules, methods and
\* dependents; logics run if and only if the gate is open on an item without
\* threshold, and only if the gate is open on an item with threshold.
C4_FanOutGateButThreshold ==
    [][(last'.op \in UpdateOps /\ CastOk) =>
            /\ RulesMethodsDependents
            /\ \A i \in DOMAIN cfg[last'.n].logics :
                    /\ Ran("logic", last'.n, i) => GateOpen
                    /\ ~cfg[last'.n].threshold.on => (GateOpen => Ran("logic", last'.n, i))]_vars

\* the same value written again to an item that neither enforces updates nor
\* is a scene: the on_update rule ran, the on_change rules, methods and logic did not
C4_Witness ==
    /\ cfg = ConfRules
    /\ last.op = "update"
    /\ items["a"].value = I(3)
    /\ Ev("commit", "a", 1, 0) \in Range(last.trace)
    /\ Ev("on_update", "a", 1, 1) \in Range(last.trace)
    /\ Ev("on_change", "a", 1, 1) \notin Range(last.trace)
    /\ Ev("method", "a", 1, 1) \notin Range(last.trace)
    /\ Ev("logic", "a", 1, 1) \notin Range(last.trace)

\* C5: on an item with threshold low:high and a subscribed logic, an accepted
\* update fires the logics only when its value is >= high or <= low, never when
\* it lies strictly between; every firing flips the crossed flag, a flag that
\* flips fires, a firing that sets the flag is at a value >= high and one that
\* clears it at a value <= low: high and low firings alternate.
C5_ThresholdHysteresis ==
    [][(/\ last'.op \in UpdateOps /\ CastOk
        /\ cfg[last'.n].threshold.on /\ cfg[last'.n].logics # <<>>) =>
            LET n == last'.n
                th == cfg[n].threshold
                v == items'[n].value.n
                fired == \E i \in DOMAIN cfg[n].logics : Ran("logic", n, i)
                flipped == items'[n].th_crossed # items[n].th_crossed
            IN  /\ fired => (v >= th.high \/ v <= th.low)
                /\ (th.low < v /\ v < th.high) => ~fired
                /\ fired <=> flipped
                /\ (fired /\ items'[n].th_crossed) => v >= th.high
                /\ (fired /\ ~items'[n].th_crossed) => v <= th.low
                /\ fired => \A i \in DOMAIN cfg[n].logics : Ran("logic", n, i)]_vars

\* threshold 1:3: after a firing at 3 and an update to 2, the update to 0 fires
C5_Witness ==
    /\ cfg = ConfThreshold
    /\ last.op = "update"
    /\ Ev("logic", "a", 1, 1) \in Range(last.trace)
    /\ items["a"].value = I(0)
    /\ items["a"].prev_value = I(2)
    /\ ~items["a"].th_crossed

\* C6: on an item with autotimer (d, t), an accepted update whose caller is not
\* "Autotimer", made while the item is not fading, leaves a job pending at
\* now + d that calls the item with t and caller "Autotimer", whether or not the
\* value changed; an update with caller "Autotimer" schedules no timer itself.
C6_AutotimerArms ==
    [][(last'.op \in UpdateOps /\ CastOk /\ items[last'.n].autotimer.on) =>
            LET n == last'.n
                at == items[n].autotimer
            IN  /\ (last'.caller # "Autotimer" /\ ~items[n].fading) =>
                        /\ \E j \in sched' : /\ j.item = n
                                             /\ j.value = at.value
                                             /\ j.caller = "Autotimer"
                                             /\ j.next = now + at.time
                        /\ Ran("timer", n, now + at.time)
                /\ last'.caller = "Autotimer" =>
                        \A ev \in Range(last'.trace) :
                            ~(ev.e = "timer" /\ ev.n = n /\ ev.u = 1)]_vars

\* autotimer = 1 = 0: an update at time 1 that did not change the value left a
\* job for time 2
C6_Witness ==
    /\ cfg = ConfAutotimer
    /\ last.op = "update"
    /\ now = 1
    /\ Ev("commit", "a", 1, 0) \in Range(last.trace)
    /\ \E j \in sched : j.item = "a" /\ j.next = 2 /\ j.caller = "Autotimer"

\* the step submitted a timer of item n to the scheduler
TimerSubmitted(n) == \E ev \in Range(last'.trace) : ev.e = "timer" /\ ev.n = n

C8_OneTimerPerItem ==
    /\ \A p \in PathSet : Cardinality({j \in sched : j.item = p}) <= 1
    /\ \A j \in sched : j.name = <<"items.", j.item, "-Timer">>

\* at time 0 an update armed the autotimer, then item.timer was called: its
\* job is the only one
C8_Witness ==
    /\ cfg = ConfAutotimer
    /\ now = 0
    /\ last.op = "timer"
    /\ last.caller = "Timer"
    /\ items["a"].updated_by = By("Logic", "None")
    /\ \E j \in sched : j.caller = "Timer" /\ j.value = I(3)
    /\ Cardinality(sched) = 1

\* the values strictly between v0 and dest that steps of size step reach
RampValues(v0, dest, step) ==
    LET span == IF v0 < dest THEN dest - v0 ELSE v0 - dest
        reach(k) == IF v0 < dest THEN v0 + k * step ELSE v0 - k * step
        inside(k) == IF v0 < dest THEN reach(k) < dest ELSE reach(k) > dest
        count == Cardinality({k \in 1..span : inside(k)})
    IN  [k \in 1..count |-> reach(k)]

\* C9: a fade job that nothing interfered with has issued, when it is done,
\* the stepped values strictly between v0 and dest with caller "fader", in
\* order, then dest itself with caller "Fader", and fading is false.
C9_FadeRamp ==
    \A j \in DOMAIN fade :
        (fade[j].pc = "done" /\ ~fade[j].cut) =>
            LET ramp == RampValues(fade[j].v0.n, fade[j].dest.n, fade[j].step) IN
            /\ fade[j].issued =
                    [k \in 1..Len(ramp) |-> <<I(ramp[k]), "fader">>]
                        \o << <<fade[j].dest, "Fader">> >>
            /\ ~items[fade[j].item].fading

\* 0 toward 5 with step 2: 2, 4, 5
C9_Witness ==
    /\ fade[1].pc = "done"
    /\ ~fade[1].cut
    /\ fade[1].v0 = I(0)
    /\ fade[1].step = 2
    /\ fade[1].issued = << <<I(2), "fader">>, <<I(4), "fader">>, <<F(5), "Fader">> >>

\* C10 as stated: a fade job whose item accepted a direct update while the job
\* was ramping it never performs its final "Fader" write.
C10_DirectUpdateStopsRamp ==
    \A j \in DOMAIN fade :
        fade[j].hit =>
            ~(/\ fade[j].pc = "done"
              /\ last.op = "fadejob"
              /\ last.caller = "Fader"
              /\ last.n = fade[j].item
              /\ last.cand.ok)

C12_FadingSuppresses ==
    [][(last'.op \in UpdateOps /\ CastOk /\ items'[last'.n].fading) =>
            /\ items[last'.n].fading
            /\ cache'[last'.n] = cache[last'.n]
            /\ \A ev \in Range(last'.trace) :
                    ~(ev.n = last'.n /\ ev.e \in {"cache", "timer"})
            /\ \A j \in sched' \ sched : j.item # last'.n]_vars

\* a step of the fade job changed the value of an item with cache and autotimer:
\* the cache file still holds the old value and no timer is pending
C12_Witness ==
    /\ cfg = ConfAll
    /\ last.op = "fadejob"
    /\ last.caller = "fader"
    /\ Ev("commit", "a", 1, 1) \in Range(last.trace)
    /\ items["a"].fading
    /\ items["a"].value = I(4)
    /\ cache["a"].value # items["a"].value
    /\ sched = {}

\* C13 as stated: a fade job that was ramping its item when stop() ran never
\* performs its final "Fader" write.
C13_StopEndsRamps ==
    \A j \in DOMAIN fade :
        fade[j].stopped =>
            ~(/\ fade[j].pc = "done"
              /\ last.op = "fadejob"
              /\ last.caller = "Fader"
              /\ last.n = fade[j].item
              /\ Ev("commit", fade[j].item, 1, 1) \in Range(last.trace))

\* the positions of a call between the release of the lock (line 1029) and
\* its return
Released == {"on_update", "gate", "cache", "autotimer"}

\* C14 as stated: two calls of __update on one item never interleave their
\* steps: while one call is between its commit and its return, no other call
\* on that item has committed and not returned.
C14_UpdateStepsAtomic ==
    \A t1, t2 \in DOMAIN upd :
        (t1 # t2 /\ upd[t1].n = upd[t2].n) =>
            ~(upd[t1].pc \in Released /\ upd[t2].pc \in Released)

\* the number of times the step handed item d to sh.trigger for re-evaluation
Submissions(d) ==
    Cardinality({i \in DOMAIN last'.trace :
                    last'.trace[i].e = "trigger" /\ last'.trace[i].n = d})

\* C15 as stated: an update that changes the value of an item submits each
\* dependent of the item for re-evaluation exactly once, whatever the trigger
\* list of the dependent.
C15_OneSubmissionPerChange ==
    [][(last'.op \in UpdateOps /\ CastOk /\ Changed) =>
            \A d \in Range(Dependents) : Submissions(d) = 1]_vars

\* the items a rule of item n writes to
RuleDests(n) ==
    {cfg[n].on_update[i].dest : i \in DOMAIN cfg[n].on_update}
        \cup {cfg[n].on_change[i].dest : i \in DOMAIN cfg[n].on_change}

\* the jobs the step appended to the work queue, for item d
Enqueued(d) ==
    {i \in DOMAIN queue' : queue'[i].item = d /\ queue'[i].source = last'.n}

\* C16: an accepted update of item x changes no field of a dependent of x
\* (unless a rule of x names the dependent as its destination): every
\* dependent is handed to the work queue, once for every trigger event of the
\* update, and is evaluated by a later step.
C16_DependentsOnlyEnqueued ==
    [][(last'.op \in UpdateOps /\ CastOk) =>
            \A d \in Range(Dependents) \ RuleDests(last'.n) :
                /\ items'[d] = items[d]
                /\ cache'[d] = cache[d]
                /\ CommitsOn(last'.trace, d) = 0
                /\ GateOpen => Enqueued(d) # {}
                /\ Cardinality(Enqueued(d)) >= Submissions(d)]_vars

C16_Witness ==
    /\ last.op = "update" /\ last.n = "a"
    /\ Ev("trigger", "b", 1, 1) \in Range(last.trace)
    /\ items["a"].value = I(3)
    /\ items["b"].value = I(0)
    /\ Len(queue) >= 1 /\ queue[1].item = "b" /\ queue[1].value = I(3)

\* C17 as stated: no call of the update entry point raises to its caller,
\* whatever its rules, methods and logics do.
C17_UpdateNeverRaises ==
    last.op \in UpdateOps => last.raised = ""

\* the step wrote the cache file of item n
WroteCache(n) == \E ev \in Range(last'.trace) : ev.e = "cache" /\ ev.n = n

\* C18: an update that writes the cache file of an item stores the value the
\* item has after the update, stamped with the time of the write; and an item
\* with cache that is constructed while its file exists starts with the
\* stored value, whatever its value attribute says, with last_change,
\* last_update, prev_change and prev_update equal to the modification time
\* of the file and changed_by and updated_by equal to Cache:None.
C18_CacheRoundTrip ==
    /\ [][last'.op \in UpdateOps =>
            \A n \in PathSet :
                WroteCache(n) => cache'[n] = File(items'[n].value, now)]_vars
    /\ [][last'.op = "restart" =>
            \A n \in PathSet :
                (cfg[n].cache /\ cache[n].exists) =>
                    /\ items'[n].value = cache[n].value
                    /\ items'[n].last_change = cache[n].mtime
                    /\ items'[n].last_update = cache[n].mtime
                    /\ items'[n].prev_change = cache[n].mtime
                    /\ items'[n].prev_update = cache[n].mtime
                    /\ items'[n].changed_by = By("Cache", "None")
                    /\ items'[n].updated_by = By("Cache", "None")
                    /\ cache'[n] = cache[n]]_vars

C18_Witness ==
    /\ last.op = "restart"
    /\ now = 1
    /\ cache["a"] = File(I(3), 0)
    /\ cfg["a"].value = I(1)
    /\ items["a"].value = I(3)
    /\ items["a"].last_change = 0
    /\ items["a"].changed_by = By("Cache", "None")
    /\ cache["b"].value = B(FALSE) /\ items["b"].value = B(FALSE)

\* C19: Item.set with a value that passes the cast assigns value, last_change,
\* prev_change, changed_by and updated_by of the item and nothing else: no
\* other field (prev_value, last_update, prev_update, fading, the threshold
\* flag, the autotimer) and no other item changes, no rule, method or logic
\* runs, no dependent is enqueued, no cache file is written and no timer is
\* scheduled.  With a value that fails the cast it changes nothing.
C19_SetFrame ==
    [][last'.op = "set" =>
            /\ sched' = sched /\ queue' = queue /\ cache' = cache
            /\ last'.trace = <<>> /\ last'.raised = ""
            /\ \A p \in PathSet \ {last'.n} : items'[p] = items[p]
            /\ IF CastOk
               THEN /\ items'[last'.n] =
                        [items[last'.n] EXCEPT
                            !.value = CastValue,
                            !.prev_change = items[last'.n].last_change,
                            !.last_change = items'[last'.n].last_change,
                            !.changed_by = By(last'.caller, "None"),
                            !.updated_by = By(last'.caller, "None")]
                    /\ items'[last'.n].last_change \in {now} \cup (SetTimes(cfg) \ {-1})
               ELSE items' = items]_vars

C19_Witness ==
    /\ last.op = "set" /\ last.raw = I(1)
    /\ items["a"].value = I(1)
    /\ items["a"].prev_value = I(0)
    /\ items["a"].fading
    /\ items["a"].changed_by = By("DB", "None")
    /\ items["a"].last_change = 1 /\ items["a"].last_update = 0
    /\ cache["a"].value = I(0)
    /\ sched = {}

\* C20 as stated: no two constructed and registered items have the same
\* path, return_item of the path of a registered item is that item, and
\* item_count is the number of registered items, also when a key of the
\* configuration holds a dot.
C20_PathIdentifiesOneItem ==
    /\ \A i, j \in reg.added : i # j => reg.made[i] # reg.made[j]
    /\ \A i \in reg.added : Items_return_item(reg, reg.made[i]) = i
    /\ item_count(reg) = Cardinality(reg.added)

\* C21 as stated: an attribute configured as ".." is stored as the value the
\* parent stores for that attribute, and one configured as "..." as the value
\* the grandparent stores for it.
C21_AttrFromParentAndGrandparent ==
    fn.f = "attr" =>
        \A i \in DOMAIN fn.conf :
            /\ fn.config[i] = ".." => fn.conf[i] = fn.conf[i - 1]
            /\ (fn.config[i] = "..." /\ i >= 3) => fn.conf[i] = fn.conf[i - 2]

\* path p is path q or above it
IsPrefix(p, q) == Len(p) <= Len(q) /\ SubSeq(q, 1, Len(p)) = p

\* C22 as stated: when the construction of an item fails on an unknown type,
\* neither the item nor any item below it is registered.
C22_FailedSubtreeNotRegistered ==
    \A i \in reg.failed :
        \A p \in Range(reg.order) : ~IsPrefix(reg.made[i], p)

\* the names of a path without a last name self
DropSelf(names) ==
    IF names # <<>> /\ names[Len(names)] = "self"
    THEN SubSeq(names, 1, Len(names) - 1) ELSE names

\* C23 as stated: from an item whose path has n names, k >= 1 dots followed
\* by the name r give the first n - (k - 1) names of the path followed by r,
\* without r when r is self and follows a name; more dots than that give the
\* empty path; and a path that does not start with a dot is returned as it
\* is.
C23_AbsolutePath ==
    (fn.f = "path" /\ fn.done) =>
        LET n == Len(fn.names) IN
        IF fn.k = 0 THEN fn.result = Chars(fn.r) \o fn.pad
        ELSE IF fn.k - 1 < n
             THEN fn.result = Join(DropSelf(Append(SubSeq(fn.names, 1, n - (fn.k - 1)),
                                                   fn.r)))
        ELSE IF fn.k - 1 = n
             THEN fn.result = Chars(fn.r)
             ELSE fn.result = <<>>

\* the candidates the specification maps to false and to true
SpecFalse ==
    {I(0), F(0), B(FALSE), S("0"), S("false"), S("no"), S("OFF"), S("")}
SpecTrue ==
    {I(1), F(1), B(TRUE), S("1"), S("True"), S("yes"), S("On")}

C25_FiresOnlyAfterOppositeSide ==
    [][(/\ last'.op \in UpdateOps /\ CastOk
        /\ cfg[last'.n].threshold.on
        /\ \E i \in DOMAIN cfg[last'.n].logics : Ran("logic", last'.n, i)) =>
            IF items'[last'.n].value.n >= cfg[last'.n].threshold.high
            THEN seen[last'.n].low
            ELSE seen[last'.n].high]_vars

\* C26 as stated: once item._fading was cleared from outside while a fade job
\* ramped the item, the job writes the item no more, neither as fader nor as
\* Fader.
C26_NoWriteAfterCancel ==
    \A j \in DOMAIN fade :
        fade[j].cancelled =>
            ~(/\ last.op = "fadejob"
              /\ last.n = fade[j].item
              /\ last.cand.ok
              /\ CommitsOn(last.trace, fade[j].item) = 1)

\* C27 as stated: every accepted update of an item, one that repeats the
\* value included, sets last_update to the time of the update and prev_update
\* to the last_update before.
C27_EveryWriteStampsUpdate ==
    [][(last'.op \in UpdateOps /\ CastOk /\ CommitsOn(last'.trace, last'.n) = 1) =>
            /\ items'[last'.n].last_update = now
            /\ items'[last'.n].prev_update = items[last'.n].last_update]_vars

\* C28 as stated: prev_value of an item is the value the item held right
\* before its value changed last: a step that changes the value of an item
\* leaves the old value in prev_value, and a step that does not change it
\* leaves prev_value alone (prev_value is the initial value at construction).
C28_PrevValueIsValueBefore ==
    [][\A p \in PathSet :
            IF ~PyEq(items'[p].value, items[p].value)
            THEN items'[p].prev_value = items[p].value
            ELSE items'[p].prev_value = items[p].prev_value]_vars

\* the place of an effect in the order of __update; 0 for what is no effect
\* of its own (the commit, the evaluation of a rule)
Rank(e) ==
    CASE e = "on_update" -> 1
      [] e = "on_change" -> 2
      [] e = "method" -> 3
      [] e = "logic" -> 4
      [] e = "trigger" -> 5
      [] e = "cache" -> 6
      [] e = "timer" -> 7
      [] OTHER -> 0

\* the effects of the top-level update of a step, in the order they happened
OwnEffects(tr) == SelectSeq(tr, LAMBDA ev : ev.u = 1 /\ Rank(ev.e) > 0)

\* how many effects of kind e the top-level update had
CountOf(tr, e) == Len(SelectSeq(OwnEffects(tr), LAMBDA ev : ev.e = e))

\* C29: in an update that passes the gate the effects come in the order
\* on_update rules, on_change rules, methods, logics, dependents, cache
\* write, autotimer; rules, methods, logics and dependents each in the order
\* of their list, and every rule and every method is among them.
C29_EffectsInOrder ==
    (last.op \in UpdateOps /\ CommitsOn(last.trace, last.n) >= 1) =>
        LET s == OwnEffects(last.trace) IN
        /\ \A i, j \in DOMAIN s :
                i < j => /\ Rank(s[i].e) <= Rank(s[j].e)
                         /\ (s[i].e = s[j].e /\ Rank(s[i].e) <= 5) => s[i].i < s[j].i
        /\ CountOf(last.trace, "on_update") = Len(cfg[last.n].on_update)
        /\ CountOf(last.trace, "on_change") > 0 =>
                /\ CountOf(last.trace, "on_change") = Len(cfg[last.n].on_change)
                /\ CountOf(last.trace, "method") = Len(cfg[last.n].methods)

\* an update whose effects are of all seven kinds
C29_Witness ==
    /\ last.op \in UpdateOps
    /\ {Rank(OwnEffects(last.trace)[i].e) : i \in DOMAIN OwnEffects(last.trace)} = 1..7
    /\ CountOf(last.trace, "method") = 2

\* a rule whose expression raises or whose destination is not registered
FailingRule(r) == r.expr.k = "raise" \/ (r.dest # "" /\ r.dest \notin PathSet)

\* item n has a rule or a method that fails
SomeFailure(n) ==
    \/ \E r \in Range(cfg[n].on_update) \cup Range(cfg[n].on_change) : FailingRule(r)
    \/ "raise" \in Range(cfg[n].methods)

\* C30 as stated: in an update that passes the gate of an item with a rule
\* that fails to evaluate, a rule whose destination is not registered or a
\* method that raises, every rule and every method runs all the same, and so
\* do the steps behind them: the logics are triggered, the dependents are
\* submitted, the cache file is written when the value changed and the
\* autotimer is armed.
C30_FailuresIsolated ==
    [][(last'.op \in UpdateOps /\ CastOk /\ GateOpen /\ SomeFailure(last'.n)) =>
            /\ \A i \in DOMAIN cfg[last'.n].on_update : Ran("on_update", last'.n, i)
            /\ \A i \in DOMAIN cfg[last'.n].on_change : Ran("on_change", last'.n, i)
            /\ \A i \in DOMAIN cfg[last'.n].methods : Ran("method", last'.n, i)
            /\ ~cfg[last'.n].threshold.on =>
                    \A i \in DOMAIN cfg[last'.n].logics : Ran("logic", last'.n, i)
            /\ \A i \in DOMAIN Dependents : Ran("trigger", Dependents[i], i)
            /\ (Changed /\ cfg[last'.n].cache /\ ~items'[last'.n].fading) =>
                    Ran("cache", last'.n, 0)
            /\ (items[last'.n].autotimer.on /\ last'.caller # "Autotimer"
                    /\ ~items'[last'.n].fading) =>
                    \E ev \in Range(last'.trace) :
                        ev.e = "timer" /\ ev.n = last'.n /\ ev.u = 1]_vars

\* C31 as stated: in an update that passes the gate of an item with a logic
\* that raises, the other subscribed logics are triggered all the same, the
\* dependents are submitted, the cache file is written when the value changed
\* and the autotimer is armed.
C31_LogicFailureIsolated ==
    [][(last'.op \in UpdateOps /\ CastOk /\ GateOpen
            /\ "raise" \in Range(cfg[last'.n].logics) /\ ~cfg[last'.n].threshold.on) =>
            /\ \A i \in DOMAIN cfg[last'.n].logics : Ran("logic", last'.n, i)
            /\ \A i \in DOMAIN Dependents : Ran("trigger", Dependents[i], i)
            /\ (Changed /\ cfg[last'.n].cache /\ ~items'[last'.n].fading) =>
                    WroteCache(last'.n)
            /\ (items[last'.n].autotimer.on /\ last'.caller # "Autotimer"
                    /\ ~items'[last'.n].fading) => TimerSubmitted(last'.n)]_vars

\* C32: an accepted update calls _cache_write exactly when it changed the
\* value, the item has cache = yes and the item is not fading when the update
\* gets there (so never for an enforced update that repeats the value); the
\* file then holds the new value, unless the write fails, and in that case the
\* file is as before, the value, last_change and changed_by of the update are
\* kept, and the autotimer is armed as after a write that succeeds.
C32_CacheWriteThrough ==
    [][(last'.op \in UpdateOps /\ CastOk /\ CommitsOn(last'.trace, last'.n) = 1) =>
            /\ Ran("cache", last'.n, 0) <=>
                    (Changed /\ cfg[last'.n].cache /\ ~items'[last'.n].fading)
            /\ (Ran("cache", last'.n, 0) /\ ~cfg[last'.n].readonly) =>
                    cache'[last'.n] = File(items'[last'.n].value, now)
            /\ ~(Ran("cache", last'.n, 0) /\ ~cfg[last'.n].readonly) =>
                    cache'[last'.n] = cache[last'.n]
            /\ (Ran("cache", last'.n, 0) /\ cfg[last'.n].readonly) =>
                    /\ last'.raised = ""
                    /\ items'[last'.n].value = CastValue
                    /\ items'[last'.n].prev_value = items[last'.n].value
                    /\ items'[last'.n].last_change = now
                    /\ items'[last'.n].last_update = now
                    /\ items'[last'.n].changed_by = By(last'.caller, last'.source)
                    /\ items'[last'.n].updated_by = By(last'.caller, last'.source)
                    /\ (items[last'.n].autotimer.on /\ last'.caller # "Autotimer") =>
                            TimerSubmitted(last'.n)]_vars

\* an update changed the value of the item whose cache file cannot be
\* written: the file is as it was and a timer is pending
C32_Witness ==
    /\ cfg = ConfReadonly
    /\ last.op = "update"
    /\ Ev("cache", "a", 1, 0) \in Range(last.trace)
    /\ items["a"].value = I(1)
    /\ cache["a"].value # I(1)
    /\ sched # {}

\* C33: once the first evaluation of any item is submitted (and so before any
\* of them runs) _items_to_trigger of every item is complete; and when the
\* loops are through, the items submitted with caller Init are those with
\* both eval_trigger and eval, each once.
C33_TwoPhaseInit ==
    fn.f = "load" =>
        /\ (fn.submitted # <<>> \/ last.caller = "Init") =>
                \A p \in PathSet : fn.deps[p] = ItemsToTrigger(cfg, p, 1)
        /\ last.op = "eval" => last.caller = "Init" /\ last.n \in Range(fn.submitted)
        /\ fn.k = 2 * Len(Paths) =>
                fn.submitted = SelectSeq(Paths, LAMBDA p : cfg[p].trigger # <<>>
                                                          /\ cfg[p].eval.k # "")

\* both items were submitted, each is a dependent of the other, and a first
\* evaluation ran
C33_Witness ==
    /\ fn.f = "load"
    /\ fn.submitted = <<"a", "b">>
    /\ fn.deps = [p \in PathSet |-> IF p = "a" THEN <<"b">> ELSE <<"a">>]
    /\ last.op = "eval"
    /\ last.caller = "Init"

\* Python truth of a value
Truthy(v) ==
    CASE IsNumber(v) -> v.n # 0
      [] v.t = "str" -> v.s # ""
      [] OTHER -> FALSE

\* what the trigger condition and the eval expression of the evaluated item
\* give for the value the evaluation was handed
CondResult == EvalExpr(World, cfg[last'.n].condition, last'.raw)
EvalResult == EvalExpr(World, cfg[last'.n].eval, last'.raw)

\* C34: an evaluation of an item with a trigger condition updates the item
\* only if the condition evaluates, and to a true value; if the condition
\* raises or gives a false value, or the eval expression raises or gives None,
\* no item is changed, no rule, method or logic runs, nothing is submitted or
\* scheduled and no cache file is written.
C34_ConditionGuardsEval ==
    [][(last'.op = "eval" /\ cfg[last'.n].condition.k # "") =>
            /\ last'.trace # <<>> => CondResult.ok /\ Truthy(CondResult.v)
            /\ (~CondResult.ok \/ ~Truthy(CondResult.v)
                    \/ ~EvalResult.ok \/ EvalResult.v.t = "none") =>
                    /\ items' = items
                    /\ last'.trace = <<>>
                    /\ last'.raised = ""
                    /\ sched' = sched
                    /\ cache' = cache
                    /\ Len(queue') = Len(queue) - 1]_vars

\* an evaluation under the condition 1 updated the item
C34_Witness ==
    /\ last.op = "eval"
    /\ cfg[last.n].condition = ExprConst(I(1))
    /\ Ev("commit", last.n, 1, 1) \in Range(last.trace)

\* C35: item(v, caller) on an item with an eval expression changes no item
\* and runs nothing; it hands one evaluation with value = v to sh.trigger, and
\* when that evaluation runs and the item accepts it, the item holds what the
\* expression gave, cast to the type of the item.  On an item without eval
\* the same call runs __update before it returns.
C35_WriteToEvalItemIsQueued ==
    [][/\ (last'.op = "update" /\ cfg[last'.n].eval.k # "") =>
            /\ items' = items
            /\ last'.trace = <<>>
            /\ cache' = cache
            /\ sched' = sched
            /\ queue' = Append(queue, EvalJob(last'.n, last'.raw, last'.caller,
                                               last'.source))
       /\ (last'.op = "update" /\ cfg[last'.n].eval.k = "") =>
            /\ queue' = queue
            /\ Cast(cfg[last'.n].type, last'.raw).ok =>
                    /\ Ev("commit", last'.n, 1, 0) \in Range(last'.trace)
                            \/ Ev("commit", last'.n, 1, 1) \in Range(last'.trace)
                    /\ PyEq(items'[last'.n].value, Cast(cfg[last'.n].type, last'.raw).v)
       /\ (last'.op = "eval" /\ last'.trace # <<>>) =>
            /\ EvalResult.ok
            /\ items'[last'.n].value = Cast(cfg[last'.n].type, EvalResult.v).v
      ]_vars

\* 3 was written to the item with eval = 7, and the evaluation left 7 in it
C35_Witness ==
    /\ last.op = "eval"
    /\ last.raw = I(3)
    /\ cfg["a"].eval = ExprConst(I(7))
    /\ items["a"].value = I(7)
    /\ Ev("method", "a", 1, 1) \in Range(last.trace)

\* C36 as stated: when a fade job issues a step of its ramp, no other job is
\* ramping the same item (two requests never both start a ramp), and the job
\* is not one that a direct update cancelled and that goes on because the
\* fading flag was set again since.
C36_OneFadeJobAtATime ==
    [][\A j \in DOMAIN fade :
            (fade[j].pc = "step" /\ fade'[j].pc = "wait") =>
                /\ ~(fade[j].cancelled /\ items[fade[j].item].fading)
                /\ \A k \in DOMAIN fade \ {j} :
                        ~(/\ fade[k].item = fade[j].item
                          /\ fade[k].pc \in Ramping
                          /\ ~fade[k].cancelled
                          /\ ~fade[k].stopped)]_vars

\* C37 as stated: when both calls of __update on the item with cache = yes
\* have returned, the cache file holds the value of the item if the file was
\* written at all, and it was written if the value is not the initial one.
C37_CacheFollowsValue ==
    (\A t \in DOMAIN upd : upd[t].pc = "done") =>
        \A n \in Driven(cfg) :
            cfg[n].cache =>
                /\ cache[n].exists => PyEq(cache[n].value, items[n].value)
                /\ ~PyEq(items[n].value, NewItem(cfg[n], NoFile, 0).item.value) =>
                        cache[n].exists

\* C38 as stated: a call that fires the logics of a threshold item as a
\* high-cross finds the crossed flag false when it sets it, and one that fires
\* them as a low-cross finds it true: firings alternate, and no crossing fires
\* twice, whatever the two threads do.
C38_FiringsAlternate ==
    [][\A t \in DOMAIN upd :
            (upd[t].pc = "fire" /\ upd'[t].pc = "trigger") =>
                items[upd[t].n].th_crossed # (upd[t].arg = B(TRUE))]_vars

\* the number of times the top-level update of the step called eval() on a
\* rule of item n
EvalsOf(tr, n) ==
    Cardinality({k \in DOMAIN tr : tr[k].e = "eval" /\ tr[k].n = n /\ tr[k].u = 1})

\* C39 as stated: an accepted update evaluates the expression of every
\* on_update rule once, and of every on_change rule once if it passes the
\* gate, with or without a destination.
C39_RulesEvaluatedOnce ==
    [][(last'.op \in UpdateOps /\ CastOk /\ last'.raised = "") =>
            EvalsOf(last'.trace, last'.n) =
                Len(cfg[last'.n].on_update)
                    + (IF GateOpen THEN Len(cfg[last'.n].on_change) ELSE 0)]_vars

\* C40 as stated: an update returns whatever the rules are: the chain of
\* nested updates its rules set off ends by itself and never runs into the
\* limit of the call stack, also when the destinations form a cycle.
C40_UpdateTerminates ==
    [][last'.op \in UpdateOps => last'.raised # "RecursionError"]_vars

====
